---- MODULE Spec2Model ----
(***************************************************************************)
(* Model of the sokoban level layer: the tile codec (convertToRawLevel of  *)
(* levelSaver.js, convertToLevel of levelProvider.js), the localStorage    *)
(* adapters (levelSaver.js, gameSaver.js) and the level catalog            *)
(* (LevelProvider and the selection functions of levelProvider.js).        *)
(*                                                                         *)
(* A JavaScript string is a sequence of one-character strings, so that     *)
(* indexing, substr, startsWith and replace are computed, not assumed.     *)
(* A JavaScript array is a sequence; index i of the array is element i+1.  *)
(***************************************************************************)
EXTENDS Integers, Sequences, FiniteSets, TLC

VARIABLES
    \* ---- tile codec (one conversion job) ----
    board,      \* the Board handed to convertToRawLevel: rows of terrain symbols
    boxes,      \* the Boxes handed to convertToRawLevel: sequence of Box
    worker,     \* the Worker handed to convertToRawLevel, or Undefined
    rawLevel,   \* the raw level string (encoder output / decoder input)
    level,      \* what convertToLevel gave for rawLevel (a Level or a thrown error)
    reencoded,  \* what convertToRawLevel gave for the decoded level
    phase,      \* position of the conversion job
    \* ---- persistent store and level catalog ----
    localStorage,       \* the browser's localStorage: [key, value] entries in key order
    customLevels,       \* levelProvider.js: let customLevels
    byDifficultyMode,   \* levelProvider.js: let byDifficultyMode
    levelsMode,         \* levelProvider.js: let levelsMode
    difficultySource,   \* what /assets/levels/levels_difficulty.json answers
    levelsSource,       \* what /assets/levels/levels_levels_mode.json answers
    fetchDifficulty,    \* the fetch of readLevelsByDifficulty: idle, inflight, ok, failed
    fetchLevels,        \* the fetch of readLevelsLevelsByLevelNumber
    issued,             \* how many times each fetch has been issued
    promise,            \* the promise the constructor returned: none, pending, resolved, rejected
    promiseError,       \* the error the promise was rejected with
    resolveCalls,       \* how many times a constructor called resolve()
    reloads,            \* fetches in flight that were issued after the first load
    app,                \* index.js: the function passed to new LevelProvider, and its variables
    lastCall            \* the last selection call and what it gave

codecVars == <<board, boxes, worker, rawLevel, level, reencoded, phase>>

storeVars == <<localStorage, customLevels>>

loadVars == <<byDifficultyMode, levelsMode, difficultySource, levelsSource,
              fetchDifficulty, fetchLevels, issued, promise, promiseError, resolveCalls,
              reloads>>

vars == <<board, boxes, worker, rawLevel, level, reencoded, phase,
          localStorage, customLevels, byDifficultyMode, levelsMode,
          difficultySource, levelsSource, fetchDifficulty, fetchLevels, issued,
          promise, promiseError, resolveCalls, reloads, app, lastCall>>

\* ------------------------------------------------------------------------
\* Bounds of the model
\* ------------------------------------------------------------------------
\* Most boxes in a structured level handed to the encoder.
MaxBoxes == 2
\* Most characters by which a raw string handed to the decoder is longer or
\* shorter than a full board.
MaxSlack == 1
\* Most boxes in a structured level whose onTarget flags are arbitrary.
MaxAnyFlag == 1

\* Most entries localStorage holds.
MaxStored == 2
\* How far below 0 and past the last index a requested level number goes.
MaxBeyond == 1
\* How many times each bundled file is fetched again after the first load.
MaxReloads == 1

\* ------------------------------------------------------------------------
\* Program constants
\* ------------------------------------------------------------------------
\* constants.js: BOARD_DIMENSIONS = { x: 30, y: 20 }.  The codec reads the two
\* numbers only through this record; the model uses the 3 x 2 board of the
\* documentation's worked example, non-square so that rows and columns cannot
\* be exchanged unnoticed.
BOARD_DIMENSIONS == [x |-> 3, y |-> 2]

\* constants.js: the key prefixes
SAVED_GAME_PREFIX == <<"s", "a", "v", "e", "/">>
CUSTOM_SAVE_PREFIX == <<"c", "u", "s", "t", "o", "m", "_", "s", "a", "v", "e", "/">>
CUSTOM_LEVEL_PREFIX == <<"l", "e", "v", "e", "l", "/">>

Undefined == [undefined |-> TRUE]

Terrain == {"e", "w", "t"}
Symbols == {"e", "w", "t", "h", "b", "p"}

Positions == [x : 0 .. BOARD_DIMENSIONS.x - 1, y : 0 .. BOARD_DIMENSIONS.y - 1]

\* ------------------------------------------------------------------------
\* JavaScript library functions used by the code
\* ------------------------------------------------------------------------
Min(a, b) == IF a < b THEN a ELSE b
Max(a, b) == IF a > b THEN a ELSE b

\* 'c'.repeat(n)
Repeat(c, n) == [i \in 1 .. n |-> c]

\* String.prototype.substr(start, length) for start >= 0
Substr(s, start, length) ==
    LET from == Min(start, Len(s))
        to == Min(from + Max(length, 0), Len(s))
    IN  SubSeq(s, from + 1, to)

\* String.prototype.substr(start) for start >= 0
SubstrFrom(s, start) == SubSeq(s, Min(start, Len(s)) + 1, Len(s))

\* The constructors of objects/worker.js, objects/box.js and objects/boxes.js
NewWorker(position) == [position |-> position]
NewBox(position, onTarget) == [position |-> position, onTarget |-> onTarget]
NewBoxes == <<>>
addBox(bs, box) == Append(bs, box)

\* ------------------------------------------------------------------------
\* levelSaver.js: the encoder
\* ------------------------------------------------------------------------
\* The replacement inserted at the index, nothing of the text overwritten.
replaceAt_Insert(s, index, replacement) ==
    Substr(s, 0, index) \o replacement \o SubstrFrom(s, index)

\* String.prototype.replaceAt(index, replacement)
replaceAt(s, index, replacement) ==
    Substr(s, 0, index) \o replacement \o SubstrFrom(s, index + Len(replacement))

\* row.forEach((index, columnIndex) => rawLevel = rawLevel.replaceAt(...)),
\* from column columnIndex on
RECURSIVE WriteRow(_, _, _, _)
WriteRow(raw, b, rowIndex, columnIndex) ==
    IF columnIndex >= Len(b[rowIndex + 1]) THEN raw
    ELSE WriteRow(replaceAt(raw, rowIndex * BOARD_DIMENSIONS.x + columnIndex,
                            <<b[rowIndex + 1][columnIndex + 1]>>),
                  b, rowIndex, columnIndex + 1)

\* board.board.forEach((row, rowIndex) => ...), from row rowIndex on
RECURSIVE WriteRows(_, _, _)
WriteRows(raw, b, rowIndex) ==
    IF rowIndex >= Len(b) THEN raw
    ELSE WriteRows(WriteRow(raw, b, rowIndex, 0), b, rowIndex + 1)

WriteTerrain(raw, b) == WriteRows(raw, b, 0)

\* A box written as b whatever the terrain under it.
WriteBox_AlwaysB(raw, box) ==
    replaceAt(raw, box.position.y * BOARD_DIMENSIONS.x + box.position.x, <<"b">>)

\* A box written as h or b by its onTarget flag, not by the terrain under it.
WriteBox_ByFlag(raw, box) ==
    replaceAt(raw, box.position.y * BOARD_DIMENSIONS.x + box.position.x,
              IF box.onTarget THEN <<"h">> ELSE <<"b">>)

\* The callback of boxes.boxes.forEach for one box.
WriteBox(raw, box) ==
    LET rawLevelPosition == box.position.y * BOARD_DIMENSIONS.x + box.position.x
    IN  IF rawLevelPosition < Len(raw) /\ raw[rawLevelPosition + 1] = "t"
        THEN replaceAt(raw, rawLevelPosition, <<"h">>)
        ELSE replaceAt(raw, rawLevelPosition, <<"b">>)

\* The worker never written.
WriteWorker_Skipped(raw, w) == raw

\* if(typeof worker != 'undefined') rawLevel = rawLevel.replaceAt(..., 'p')
WriteWorker(raw, w) ==
    IF w # Undefined
    THEN replaceAt(raw, w.position.y * BOARD_DIMENSIONS.x + w.position.x, <<"p">>)
    ELSE raw

\* boxes.boxes.forEach(box => ...)
RECURSIVE WriteBoxes(_, _)
WriteBoxes(raw, bs) ==
    IF bs = <<>> THEN raw
    ELSE WriteBoxes(WriteBox(raw, Head(bs)), Tail(bs))

convertToRawLevel(b, bs, w) ==
    LET blank == Repeat("e", BOARD_DIMENSIONS.x * BOARD_DIMENSIONS.y)
    IN  WriteWorker(WriteBoxes(WriteTerrain(blank, b), bs), w)

\* ------------------------------------------------------------------------
\* levelProvider.js: the decoder
\* ------------------------------------------------------------------------
\* A board pre-filled with walls instead of empty floor.
EmptyBoard_Walls == [r \in 1 .. BOARD_DIMENSIONS.y |-> Repeat("w", BOARD_DIMENSIONS.x)]

\* new Array(BOARD_DIMENSIONS.y).fill('e').map(() => new Array(BOARD_DIMENSIONS.x).fill('e'))
EmptyBoard == [r \in 1 .. BOARD_DIMENSIONS.y |-> Repeat("e", BOARD_DIMENSIONS.x)]

\* Locals that start without a worker.
DecodeStart_NoWorker ==
    [row |-> 0, column |-> 0, board |-> EmptyBoard,
     worker |-> Undefined, boxes |-> NewBoxes, threw |-> FALSE]

\* The decoder's locals before the loop.
DecodeStart ==
    [row |-> 0, column |-> 0, board |-> EmptyBoard,
     worker |-> NewWorker([x |-> 0, y |-> 0]), boxes |-> NewBoxes, threw |-> FALSE]

\* A cursor that wraps after as many columns as the board has rows.
Cursor_WrapsAtHeight(st) ==
    IF st.column >= BOARD_DIMENSIONS.y
    THEN [st EXCEPT !.column = 0, !.row = st.row + 1]
    ELSE st

\* if(column >= BOARD_DIMENSIONS.x) { column = 0; row ++; }
Cursor(st) ==
    IF st.column >= BOARD_DIMENSIONS.x
    THEN [st EXCEPT !.column = 0, !.row = st.row + 1]
    ELSE st

\* A write past the last row dropped instead of throwing.
SetCell_DropPastBoard(st, symbol) ==
    IF st.row >= BOARD_DIMENSIONS.y
    THEN st
    ELSE [st EXCEPT !.board[st.row + 1][st.column + 1] = symbol]

\* board[row][column] = symbol; board[row] is undefined past the last row, and
\* the assignment then throws a TypeError.
SetCell(st, symbol) ==
    IF st.row >= BOARD_DIMENSIONS.y
    THEN [st EXCEPT !.threw = TRUE]
    ELSE [st EXCEPT !.board[st.row + 1][st.column + 1] = symbol]

\* A callback that writes empty floor under every box, h included.
DecodeChar_FloorUnderBox(st0, element) ==
    IF st0.threw THEN st0
    ELSE
        LET st == Cursor(st0)
            here == [x |-> st.column, y |-> st.row]
            done ==
                CASE element = "p" ->
                        SetCell([st EXCEPT !.worker = NewWorker(here)], "e")
                  [] element = "b" ->
                        SetCell([st EXCEPT !.boxes = addBox(st.boxes, NewBox(here, FALSE))], "e")
                  [] element = "h" ->
                        SetCell([st EXCEPT !.boxes = addBox(st.boxes, NewBox(here, TRUE))], "e")
                  [] OTHER -> SetCell(st, element)
        IN  IF done.threw THEN done ELSE [done EXCEPT !.column = done.column + 1]

\* The body of the forEach callback for one character.
DecodeChar(st0, element) ==
    IF st0.threw THEN st0
    ELSE
        LET st == Cursor(st0)
            here == [x |-> st.column, y |-> st.row]
            done ==
                CASE element = "p" ->
                        SetCell([st EXCEPT !.worker = NewWorker(here)], "e")
                  [] element = "b" ->
                        SetCell([st EXCEPT !.boxes = addBox(st.boxes, NewBox(here, FALSE))], "e")
                  [] element = "h" ->
                        SetCell([st EXCEPT !.boxes = addBox(st.boxes, NewBox(here, TRUE))], "t")
                  [] OTHER -> SetCell(st, element)
        IN  IF done.threw THEN done ELSE [done EXCEPT !.column = done.column + 1]

\* No outcome yet.
NoLevel == [threw |-> FALSE, none |-> TRUE]

\* A thrown TypeError, as the outcome of a call.
TypeError == [threw |-> TRUE, error |-> "TypeError"]

\* [...rawLevel].forEach(element => ...)
RECURSIVE DecodeAll(_, _)
DecodeAll(st, raw) ==
    IF raw = <<>> THEN st
    ELSE DecodeAll(DecodeChar(st, Head(raw)), Tail(raw))

convertToLevel(raw) ==
    LET st == DecodeAll(DecodeStart, raw)
    IN  IF st.threw THEN TypeError
        ELSE [threw |-> FALSE, board |-> st.board, worker |-> st.worker, boxes |-> st.boxes]

\* ------------------------------------------------------------------------
\* JavaScript strings, arrays and the Storage object
\* ------------------------------------------------------------------------
\* String.prototype.indexOf(pattern): the first index it occurs at, or -1
IndexOf(s, pattern) ==
    LET hits == {i \in 0 .. Len(s) - Len(pattern) :
                    SubSeq(s, i + 1, i + Len(pattern)) = pattern}
    IN  IF hits = {} THEN -1
        ELSE CHOOSE i \in hits : \A j \in hits : i <= j

\* A filter that keeps every key the prefix occurs in, not only the keys it
\* starts.
StartsWith_Includes(s, prefix) == IndexOf(s, prefix) # -1

\* String.prototype.startsWith(prefix)
StartsWith(s, prefix) ==
    Len(s) >= Len(prefix) /\ SubSeq(s, 1, Len(prefix)) = prefix

\* A replace that rewrites every occurrence of the pattern, as a global
\* regular expression would.
RECURSIVE Replace_All(_, _, _)
Replace_All(s, pattern, replacement) ==
    LET i == IndexOf(s, pattern)
    IN  IF i = -1 \/ pattern = <<>> THEN s
        ELSE Substr(s, 0, i) \o replacement
                \o Replace_All(SubstrFrom(s, i + Len(pattern)), pattern, replacement)

\* String.prototype.replace(pattern, replacement) with a string pattern: the
\* first occurrence only
Replace(s, pattern, replacement) ==
    LET i == IndexOf(s, pattern)
    IN  IF i = -1 THEN s
        ELSE Substr(s, 0, i) \o replacement \o SubstrFrom(s, i + Len(pattern))

\* array[index]: undefined outside 0 .. length-1
ArrayGet(array, index) ==
    IF index \in 0 .. Len(array) - 1 THEN array[index + 1] ELSE Undefined

\* An object (a parsed JSON document, localStorage) is the sequence of its
\* [key, value] properties in Object.keys order.
\* Object.keys(object)
ObjectKeys(object) == [i \in 1 .. Len(object) |-> object[i].key]

\* key in object
ObjectHas(object, key) == \E i \in 1 .. Len(object) : object[i].key = key

\* object[key], for a key the object has
ObjectGet(object, key) ==
    object[CHOOSE i \in 1 .. Len(object) : object[i].key = key].value

\* localStorage.getItem(key), for a key that is stored
getItem(store, key) == ObjectGet(store, key)

\* localStorage.setItem(key, value)
setItem(store, key, value) ==
    IF ObjectHas(store, key)
    THEN [i \in 1 .. Len(store) |->
            IF store[i].key = key THEN [key |-> key, value |-> value] ELSE store[i]]
    ELSE Append(store, [key |-> key, value |-> value])

\* A removal of every key the given key occurs in.
removeItem_Containing(store, key) == SelectSeq(store, LAMBDA e : IndexOf(e.key, key) = -1)

\* localStorage.removeItem(key)
removeItem(store, key) == SelectSeq(store, LAMBDA e : e.key # key)

\* ------------------------------------------------------------------------
\* levelSaver.js: the level store
\* ------------------------------------------------------------------------
\* saveLevel(levelName, board, boxes, worker), as a function of the store
saveLevel(store, levelName, b, bs, w) ==
    setItem(store, CUSTOM_LEVEL_PREFIX \o levelName, convertToRawLevel(b, bs, w))

\* removeLevel(levelName), as a function of the store
removeLevel(store, levelName) == removeItem(store, CUSTOM_LEVEL_PREFIX \o levelName)

\* The entry readLevels pushes for one key.
LevelEntry(store, key) ==
    [name |-> Replace(key, CUSTOM_LEVEL_PREFIX, <<>>), data |-> getItem(store, key)]

\* readLevels()
readLevels(store) ==
    LET keys == SelectSeq(ObjectKeys(store), LAMBDA key : StartsWith(key, CUSTOM_LEVEL_PREFIX))
    IN  [i \in 1 .. Len(keys) |-> LevelEntry(store, keys[i])]

\* ------------------------------------------------------------------------
\* gameSaver.js: the progress store
\* ------------------------------------------------------------------------
\* JSON.stringify, as the sequence of the text's lexemes.  A string value is
\* its characters between two quote lexemes, written ' here.
StringifyString(text) == <<"'">> \o text \o <<"'">>

StringifyNumber(n) == <<ToString(n)>>

StringifyPosition(position) ==
    <<"{", "x:">> \o StringifyNumber(position.x)
        \o <<",", "y:">> \o StringifyNumber(position.y) \o <<"}">>

StringifyWorker(w) == <<"{", "position:">> \o StringifyPosition(w.position) \o <<"}">>

StringifyBox(box) ==
    <<"{", "position:">> \o StringifyPosition(box.position)
        \o <<",", "onTarget:", IF box.onTarget THEN "true" ELSE "false", "}">>

\* The elements of an array of boxes, separated by commas.
RECURSIVE StringifyBoxList(_)
StringifyBoxList(bs) ==
    IF bs = <<>> THEN <<>>
    ELSE IF Len(bs) = 1 THEN StringifyBox(Head(bs))
    ELSE StringifyBox(Head(bs)) \o <<",">> \o StringifyBoxList(Tail(bs))

StringifyBoxes(bs) == <<"{", "boxes:", "[">> \o StringifyBoxList(bs) \o <<"]", "}">>

\* saveGame: JSON.stringify({ currentLevel, worker, boxes, movesMade, movesUndone, score })
GameJson(currentLevel, w, bs, movesMade, movesUndone, score) ==
    <<"{", "currentLevel:">> \o StringifyNumber(currentLevel)
        \o <<",", "worker:">> \o StringifyWorker(w)
        \o <<",", "boxes:">> \o StringifyBoxes(bs)
        \o <<",", "movesMade:">> \o StringifyNumber(movesMade)
        \o <<",", "movesUndone:">> \o StringifyNumber(movesUndone)
        \o <<",", "score:">> \o StringifyNumber(score) \o <<"}">>

\* saveCustomGame: JSON.stringify({ levelName, worker, boxes, movesMade, movesUndone })
CustomGameJson(levelName, w, bs, movesMade, movesUndone) ==
    <<"{", "levelName:">> \o StringifyString(levelName)
        \o <<",", "worker:">> \o StringifyWorker(w)
        \o <<",", "boxes:">> \o StringifyBoxes(bs)
        \o <<",", "movesMade:">> \o StringifyNumber(movesMade)
        \o <<",", "movesUndone:">> \o StringifyNumber(movesUndone) \o <<"}">>

\* saveGame(gameName, currentLevel, worker, boxes, movesMade, movesUndone, score),
\* as a function of the store
saveGame(store, gameName, currentLevel, w, bs, movesMade, movesUndone, score) ==
    setItem(store, SAVED_GAME_PREFIX \o gameName,
            GameJson(currentLevel, w, bs, movesMade, movesUndone, score))

\* The custom-mode save written under the prefix of the sequential-mode saves.
saveCustomGame_SharedPrefix(store, gameName, levelName, w, bs, movesMade, movesUndone) ==
    setItem(store, SAVED_GAME_PREFIX \o gameName,
            CustomGameJson(levelName, w, bs, movesMade, movesUndone))

\* saveCustomGame(gameName, levelName, worker, boxes, movesMade, movesUndone),
\* as a function of the store
saveCustomGame(store, gameName, levelName, w, bs, movesMade, movesUndone) ==
    setItem(store, CUSTOM_SAVE_PREFIX \o gameName,
            CustomGameJson(levelName, w, bs, movesMade, movesUndone))

\* The entry readGames pushes for one key.
GameEntry(store, key) ==
    [name |-> Replace(key, SAVED_GAME_PREFIX, <<>>), data |-> getItem(store, key)]

\* readGames()
readGames(store) ==
    LET keys == SelectSeq(ObjectKeys(store), LAMBDA key : StartsWith(key, SAVED_GAME_PREFIX))
    IN  [i \in 1 .. Len(keys) |-> GameEntry(store, keys[i])]

\* The entry readCustomGames pushes for one key.
CustomGameEntry(store, key) ==
    [name |-> Replace(key, CUSTOM_SAVE_PREFIX, <<>>), data |-> getItem(store, key)]

\* readCustomGames()
readCustomGames(store) ==
    LET keys == SelectSeq(ObjectKeys(store), LAMBDA key : StartsWith(key, CUSTOM_SAVE_PREFIX))
    IN  [i \in 1 .. Len(keys) |-> CustomGameEntry(store, keys[i])]

\* ------------------------------------------------------------------------
\* levelProvider.js: the catalog
\* ------------------------------------------------------------------------
Difficulties == <<"easy", "intermediate", "hard">>

\* let byDifficultyMode = { easy: [], intermediate: [], hard: [] }
NoDifficultyLevels == [d \in {"easy", "intermediate", "hard"} |-> <<>>]

\* Object.keys(levels).forEach(key => pool.push({ 'name': key, 'data': levels[key] }))
PushAll(pool, levels) ==
    pool \o [i \in 1 .. Len(levels) |-> [name |-> levels[i].key, data |-> levels[i].value]]

\* The forEach over the difficulties of readLevelsByDifficulty, from the i-th
\* on: the pools it leaves, and whether Object.keys(levels[difficulty]) threw.
RECURSIVE PushDifficulties(_, _, _)
PushDifficulties(pools, levels, i) ==
    IF i > Len(Difficulties) THEN [pools |-> pools, threw |-> FALSE]
    ELSE IF ~ObjectHas(levels, Difficulties[i]) THEN [pools |-> pools, threw |-> TRUE]
    ELSE PushDifficulties(
            [pools EXCEPT ![Difficulties[i]] = PushAll(@, ObjectGet(levels, Difficulties[i]))],
            levels, i + 1)

\* What a selection returns for the entry it picked: level['name'] throws on
\* an undefined entry, convertToLevel(level['data']) may throw.
Selected(entry) ==
    IF entry = Undefined THEN TypeError
    ELSE LET lv == convertToLevel(entry.data)
         IN  IF lv.threw THEN TypeError
             ELSE [threw |-> FALSE, name |-> entry.name, level |-> lv]

\* getLevelByDifficulty(difficulty), random being Math.floor(Math.random() * length)
getLevelByDifficulty(pools, difficulty, random) ==
    Selected(ArrayGet(pools[difficulty], random))

\* The index rounded to the nearest instead of down: length itself can come.
RandomIndices_Rounded(length) == 0 .. length

\* The values Math.floor(Math.random() * length) can take.
RandomIndices(length) == IF length = 0 THEN {0} ELSE 0 .. length - 1

\* The bound compared with >= instead of >.
getLevelByLevelNumber_OffByOne(levels, levelNumber) ==
    Selected(IF Len(levels) >= levelNumber
             THEN ArrayGet(levels, levelNumber)
             ELSE ArrayGet(levels, Len(levels) - 1))

\* getLevelByLevelNumber(levelNumber)
getLevelByLevelNumber(levels, levelNumber) ==
    Selected(IF Len(levels) > levelNumber
             THEN ArrayGet(levels, levelNumber)
             ELSE ArrayGet(levels, Len(levels) - 1))

\* A lookup that falls back to the last entry, as the byNumber clamp does.
Find_OrLast(levels, levelName) ==
    LET at == {i \in 1 .. Len(levels) : levels[i].name = levelName}
    IN  IF at = {} THEN ArrayGet(levels, Len(levels) - 1)
        ELSE levels[CHOOSE i \in at : \A j \in at : i <= j]

\* customLevels.find(level => level['name'] == levelName)
Find(levels, levelName) ==
    LET at == {i \in 1 .. Len(levels) : levels[i].name = levelName}
    IN  IF at = {} THEN Undefined
        ELSE levels[CHOOSE i \in at : \A j \in at : i <= j]

\* getCustomLevel(levelName)
getCustomLevel(levels, levelName) == Selected(Find(levels, levelName))

\* getCustomLevelsNames()
getCustomLevelsNames(levels) == [i \in 1 .. Len(levels) |-> levels[i].name]

\* ------------------------------------------------------------------------
\* Sample data
\* ------------------------------------------------------------------------
\* Level names: the empty name, a plain one, and one that is the prefix text.
Names == {<<>>, <<"X">>, CUSTOM_LEVEL_PREFIX}

\* "wtpbhe" and "pbteee"
RawA == <<"w", "t", "p", "b", "h", "e">>
RawB == <<"p", "b", "t", "e", "e", "e">>

\* Two structured levels a player may save.
SavedLevels == {convertToLevel(RawA), convertToLevel(RawB)}

\* Names of saved games: a plain one, shared with the levels, and one that is
\* the prefix text of the levels.
GameNames == {<<"X">>, CUSTOM_LEVEL_PREFIX}

\* Two games in sequential mode and two in custom mode, as the player may
\* save them: the level, where the worker and the boxes are, the counters.
SavedGames ==
    { [currentLevel |-> 0, level |-> convertToLevel(RawA),
       movesMade |-> 0, movesUndone |-> 0, score |-> 0],
      [currentLevel |-> 1, level |-> convertToLevel(RawB),
       movesMade |-> 2, movesUndone |-> 1, score |-> 7] }

SavedCustomGames ==
    { [levelName |-> <<"X">>, level |-> convertToLevel(RawA),
       movesMade |-> 0, movesUndone |-> 0],
      [levelName |-> <<>>, level |-> convertToLevel(RawB),
       movesMade |-> 2, movesUndone |-> 1] }

Pair(k, v) == [key |-> k, value |-> v]

\* Answers of /assets/levels/levels_difficulty.json: unreachable, not JSON, a
\* document with every bucket filled, one with an empty bucket, and one that
\* lacks the key "hard".
DifficultySources ==
    { [kind |-> "unreachable"],
      [kind |-> "invalid"],
      [kind |-> "json",
       levels |-> <<Pair("easy", <<Pair(<<"E", "1">>, RawA), Pair(<<"E", "2">>, RawB)>>),
                    Pair("intermediate", <<Pair(<<"I", "1">>, RawB)>>),
                    Pair("hard", <<Pair(<<"H", "1">>, RawA)>>)>>],
      [kind |-> "json",
       levels |-> <<Pair("easy", <<Pair(<<"E", "1">>, RawA)>>),
                    Pair("intermediate", <<Pair(<<"I", "1">>, RawB)>>),
                    Pair("hard", <<>>)>>],
      [kind |-> "json",
       levels |-> <<Pair("easy", <<Pair(<<"E", "1">>, RawA)>>),
                    Pair("intermediate", <<Pair(<<"I", "1">>, RawB)>>)>>] }

\* Answers of /assets/levels/levels_levels_mode.json: unreachable, not JSON,
\* and documents of three, one and no levels.
LevelsSources ==
    { [kind |-> "unreachable"],
      [kind |-> "invalid"],
      [kind |-> "json",
       levels |-> <<Pair(<<"0">>, RawA), Pair(<<"1">>, RawB), Pair(<<"2">>, RawA)>>],
      [kind |-> "json", levels |-> <<Pair(<<"0">>, RawB)>>],
      [kind |-> "json", levels |-> <<>>] }

\* What localStorage holds when the page is opened, left by earlier sessions.
StoredAtStart ==
    { <<>>,
      <<Pair(CUSTOM_LEVEL_PREFIX \o <<"X">>, RawA)>>,
      <<Pair(SAVED_GAME_PREFIX \o <<"X">>, <<"{", "}">>),
        Pair(CUSTOM_LEVEL_PREFIX, RawB),
        Pair(CUSTOM_LEVEL_PREFIX \o <<"X">>, RawA)>> }

\* ------------------------------------------------------------------------
\* index.js: the function passed to new LevelProvider(...) and the variables
\* it declares
\* ------------------------------------------------------------------------
\* const gamemodes = Object.freeze({ BY_DIFFICULTY: 0, LEVELS: 1, CUSTOM: 2 })
gamemodes == [BY_DIFFICULTY |-> 0, LEVELS |-> 1, CUSTOM |-> 2]

\* The function has not been run: runs counts its runs, the other fields are
\* its variables gamemode, selectedDifficulty, currentLevel, level and game,
\* with the values their declarations give, whether bNextLevel is displayed,
\* which of the menus is displayed, and the saves the buttons of savesList
\* hold.
NoApp ==
    [runs |-> 0,
     gamemode |-> gamemodes.BY_DIFFICULTY,
     selectedDifficulty |-> "easy",
     currentLevel |-> 0,
     level |-> NoLevel,
     game |-> NoLevel,
     bNextLevel |-> FALSE,
     menu |-> "menu",
     savesList |-> <<>>]

\* ------------------------------------------------------------------------
\* The catalog as the module leaves it when loaded, and the calls' record
\* ------------------------------------------------------------------------
NoCall == [tick |-> 0, op |-> "none", arg |-> <<>>, promise |-> "none", outcome |-> NoLevel]

\* A selection call recorded: which, on what, in which state of the
\* constructor's promise, and what it gave.
Called(op, arg, outcome) ==
    [tick |-> 1 - lastCall.tick, op |-> op, arg |-> arg,
     promise |-> promise, outcome |-> outcome]

\* The outcome of a call that returns nothing, of a save that wrote the text
\* data, and of a list operation that returned a list.
Returns == [threw |-> FALSE]
Stored(data) == [threw |-> FALSE, data |-> data]
Listed(list) == [threw |-> FALSE, list |-> list]

CodecIdle ==
    /\ board = EmptyBoard
    /\ boxes = NewBoxes
    /\ worker = Undefined
    /\ rawLevel = <<>>
    /\ level = NoLevel
    /\ reencoded = <<>>
    /\ phase = "idle"

\* No fetch in flight besides those of the first construction: none issued by
\* a call of readLevelsByDifficulty() or readLevelsLevelsByLevelNumber() by
\* itself, none by a later constructor.
NoReloads == [difficulty |-> 0, levels |-> 0, ctorDifficulty |-> 0, ctorLevels |-> 0]

LoaderIdle ==
    /\ byDifficultyMode = NoDifficultyLevels
    /\ levelsMode = <<>>
    /\ fetchDifficulty = "idle"
    /\ fetchLevels = "idle"
    /\ issued = [difficulty |-> 0, levels |-> 0]
    /\ promise = "none"
    /\ promiseError = "none"
    /\ resolveCalls = 0
    /\ reloads = NoReloads

CatalogIdle ==
    /\ localStorage = <<>>
    /\ customLevels = <<>>
    /\ LoaderIdle
    /\ difficultySource = [kind |-> "unreachable"]
    /\ levelsSource = [kind |-> "unreachable"]
    /\ lastCall = NoCall

\* ------------------------------------------------------------------------
\* Inputs of the conversion jobs
\* ------------------------------------------------------------------------
Boards == [1 .. BOARD_DIMENSIONS.y -> [1 .. BOARD_DIMENSIONS.x -> Terrain]]

\* The terrain symbol of board b at a position.
TerrainAt(b, pos) == b[pos.y + 1][pos.x + 1]

\* Whether the positions of a sequence are pairwise distinct.
Distinct(ps) == \A i, j \in 1 .. Len(ps) : i # j => ps[i] # ps[j]

\* The boxes at the positions ps of board b, in that order, each carrying the
\* flag the game keeps for it: on a target or not.
BoxesAt(b, ps) == [i \in 1 .. Len(ps) |-> NewBox(ps[i], TerrainAt(b, ps[i]) = "t")]

Workers == {Undefined} \cup {NewWorker(p) : p \in Positions}

\* All strings over an alphabet of the given length.
Strings(alphabet, n) == [1 .. n -> alphabet]

\* One symbol for each branch of the decoder's switch that a character past
\* the board can take: the default branch, a box, the worker.
ExtraSymbols == {"e", "h", "p"}

BoardCells == BOARD_DIMENSIONS.x * BOARD_DIMENSIONS.y

\* ------------------------------------------------------------------------
\* Encoder jobs: a structured level is encoded (saveLevel) and the string is
\* decoded again (getCustomLevel).
\* ------------------------------------------------------------------------
InitEncode ==
    /\ app = NoApp
    /\ board \in Boards
    /\ \E n \in 0 .. MaxBoxes : \E ps \in [1 .. n -> Positions] :
            /\ Distinct(ps)
            /\ boxes = BoxesAt(board, ps)
    /\ worker \in Workers
    /\ rawLevel = <<>>
    /\ level = NoLevel
    /\ reencoded = <<>>
    /\ phase = "structured"
    /\ CatalogIdle

\* saveLevel: convertToRawLevel(board, boxes, worker)
Encode ==
    /\ phase = "structured"
    /\ rawLevel' = convertToRawLevel(board, boxes, worker)
    /\ phase' = "raw"
    /\ UNCHANGED <<board, boxes, worker, level, reencoded>>
    /\ UNCHANGED <<storeVars, loadVars, app, lastCall>>

\* getCustomLevel and the other selections: convertToLevel(level['data'])
Decode ==
    /\ phase = "raw"
    /\ level' = convertToLevel(rawLevel)
    /\ phase' = "decoded"
    /\ UNCHANGED <<board, boxes, worker, rawLevel, reencoded>>
    /\ UNCHANGED <<storeVars, loadVars, app, lastCall>>

\* saveLevel of a decoded level: convertToRawLevel(level.board, level.boxes, level.worker)
Reencode ==
    /\ phase = "decoded"
    /\ ~level.threw
    /\ reencoded' = convertToRawLevel(level.board, level.boxes, level.worker)
    /\ phase' = "reencoded"
    /\ UNCHANGED <<board, boxes, worker, rawLevel, level>>
    /\ UNCHANGED <<storeVars, loadVars, app, lastCall>>

NextEncode == Encode \/ Decode

SpecEncode == InitEncode /\ [][NextEncode]_vars

\* Encoder jobs on boxes whose onTarget flags are anything, whatever the
\* terrain under them: convertToRawLevel does not read the flag.
InitEncodeFlags ==
    /\ app = NoApp
    /\ board \in Boards
    /\ \E n \in 0 .. MaxAnyFlag : \E ps \in [1 .. n -> Positions], flags \in [1 .. n -> BOOLEAN] :
            /\ Distinct(ps)
            /\ boxes = [i \in 1 .. n |-> NewBox(ps[i], flags[i])]
    /\ worker \in Workers
    /\ rawLevel = <<>>
    /\ level = NoLevel
    /\ reencoded = <<>>
    /\ phase = "structured"
    /\ CatalogIdle

SpecEncodeFlags == InitEncodeFlags /\ [][NextEncode]_vars

\* ------------------------------------------------------------------------
\* Decoder jobs: a raw string, of any length near a full board, is decoded and
\* the level is encoded again.
\* ------------------------------------------------------------------------
\* Raw strings: every full board over the six symbols, each cut short by up to
\* MaxSlack characters, and each extended by up to MaxSlack characters.
IsRawInput(raw) ==
    \/ \E n \in BoardCells - MaxSlack .. BoardCells : raw \in Strings(Symbols, n)
    \/ \E k \in 1 .. MaxSlack :
            \E s \in Strings(Symbols, BoardCells), t \in Strings(ExtraSymbols, k) :
                raw = s \o t

InitDecode ==
    /\ app = NoApp
    /\ board = EmptyBoard
    /\ boxes = NewBoxes
    /\ worker = Undefined
    /\ IsRawInput(rawLevel)
    /\ level = NoLevel
    /\ reencoded = <<>>
    /\ phase = "raw"
    /\ CatalogIdle

NextDecode == Decode \/ Reencode

SpecDecode == InitDecode /\ [][NextDecode]_vars

\* ------------------------------------------------------------------------
\* LevelProvider: construction and the two loads
\* ------------------------------------------------------------------------
\* The two loads started together, the custom pool left unread.
Construct_BothFetches ==
    /\ promise = "none"
    /\ fetchDifficulty' = "inflight"
    /\ fetchLevels' = "inflight"
    /\ issued' = [difficulty |-> 1, levels |-> 1]
    /\ promise' = "pending"
    /\ UNCHANGED <<storeVars, byDifficultyMode, levelsMode, difficultySource,
                   levelsSource, promiseError, resolveCalls, lastCall,
                   reloads>>
    /\ UNCHANGED <<codecVars, app>>

\* new LevelProvider(...): the executor runs up to its first await, which is
\* inside readLevelsByDifficulty(): readCustomLevels() has run and the first
\* fetch is out. constructor() declares no parameter: the function index.js
\* passes it is kept nowhere, and app is as it was.
Construct ==
    /\ promise = "none"
    /\ customLevels' = readLevels(localStorage)
    /\ fetchDifficulty' = "inflight"
    /\ issued' = [issued EXCEPT !.difficulty = @ + 1]
    /\ promise' = "pending"
    /\ UNCHANGED <<localStorage, byDifficultyMode, levelsMode, difficultySource,
                   levelsSource, fetchLevels, promiseError, resolveCalls, lastCall,
                   reloads>>
    /\ UNCHANGED <<codecVars, app>>

\* The error a source that gives no document fails with: fetch rejects when
\* the file cannot be reached, response.json() when it is not JSON.
SourceError(source) ==
    IF source.kind = "unreachable" THEN "NetworkError" ELSE "SyntaxError"

\* The promise resolved as soon as the first load is in.
DifficultyLoaded_ResolvesEarly ==
    /\ fetchDifficulty = "inflight"
    /\ difficultySource.kind = "json"
    /\ LET filled == PushDifficulties(byDifficultyMode, difficultySource.levels, 1)
       IN  /\ ~filled.threw
           /\ byDifficultyMode' = filled.pools
    /\ fetchDifficulty' = "ok"
    /\ fetchLevels' = "inflight"
    /\ issued' = [issued EXCEPT !.levels = @ + 1]
    /\ promise' = "resolved"
    /\ resolveCalls' = resolveCalls + 1
    /\ UNCHANGED <<storeVars, levelsMode, difficultySource, levelsSource,
                   promiseError, lastCall,
                   reloads>>
    /\ UNCHANGED <<codecVars, app>>

\* levels_difficulty.json arrives as a document with all three keys: the
\* callback fills byDifficultyMode, the constructor's first await returns and
\* readLevelsLevelsByLevelNumber() sends the second fetch.
DifficultyLoaded ==
    /\ fetchDifficulty = "inflight"
    /\ difficultySource.kind = "json"
    /\ LET filled == PushDifficulties(byDifficultyMode, difficultySource.levels, 1)
       IN  /\ ~filled.threw
           /\ byDifficultyMode' = filled.pools
    /\ fetchDifficulty' = "ok"
    /\ fetchLevels' = "inflight"
    /\ issued' = [issued EXCEPT !.levels = @ + 1]
    /\ UNCHANGED <<storeVars, levelsMode, difficultySource, levelsSource,
                   promise, promiseError, resolveCalls, lastCall,
                   reloads>>
    /\ UNCHANGED <<codecVars, app>>

\* The first load fails: the fetch, response.json(), or Object.keys on a
\* missing difficulty (after the earlier difficulties were pushed).  The await
\* throws, the catch block rejects the promise; the executor ends there.
DifficultyFailed ==
    /\ fetchDifficulty = "inflight"
    /\ \/ /\ difficultySource.kind # "json"
          /\ promiseError' = SourceError(difficultySource)
          /\ UNCHANGED byDifficultyMode
       \/ /\ difficultySource.kind = "json"
          /\ LET filled == PushDifficulties(byDifficultyMode, difficultySource.levels, 1)
             IN  /\ filled.threw
                 /\ byDifficultyMode' = filled.pools
          /\ promiseError' = "TypeError"
    /\ fetchDifficulty' = "failed"
    /\ promise' = "rejected"
    /\ UNCHANGED <<storeVars, levelsMode, difficultySource, levelsSource,
                   fetchLevels, issued, resolveCalls, lastCall,
                   reloads>>
    /\ UNCHANGED <<codecVars, app>>

\* levels_levels_mode.json arrives as a document: the callback fills
\* levelsMode, the constructor's second await returns and it calls resolve().
LevelsLoaded ==
    /\ fetchLevels = "inflight"
    /\ levelsSource.kind = "json"
    /\ levelsMode' = PushAll(levelsMode, levelsSource.levels)
    /\ fetchLevels' = "ok"
    /\ promise' = IF promise = "pending" THEN "resolved" ELSE promise
    /\ resolveCalls' = resolveCalls + 1
    /\ UNCHANGED <<storeVars, byDifficultyMode, difficultySource, levelsSource,
                   fetchDifficulty, issued, promiseError, lastCall,
                   reloads>>
    /\ UNCHANGED <<codecVars, app>>

\* A catch block that swallows the error and resolves.
LevelsFailed_Swallowed ==
    /\ fetchLevels = "inflight"
    /\ levelsSource.kind # "json"
    /\ fetchLevels' = "failed"
    /\ promise' = "resolved"
    /\ resolveCalls' = resolveCalls + 1
    /\ UNCHANGED <<storeVars, byDifficultyMode, levelsMode, difficultySource,
                   levelsSource, fetchDifficulty, issued, promiseError, lastCall,
                   reloads>>
    /\ UNCHANGED <<codecVars, app>>

\* The second load fails: the await throws and the catch block rejects.
LevelsFailed ==
    /\ fetchLevels = "inflight"
    /\ levelsSource.kind # "json"
    /\ fetchLevels' = "failed"
    /\ promise' = IF promise = "pending" THEN "rejected" ELSE promise
    /\ promiseError' = SourceError(levelsSource)
    /\ UNCHANGED <<storeVars, byDifficultyMode, levelsMode, difficultySource,
                   levelsSource, fetchDifficulty, issued, resolveCalls, lastCall,
                   reloads>>
    /\ UNCHANGED <<codecVars, app>>

\* ------------------------------------------------------------------------
\* The selection functions, callable at any time: they are module exports
\* and check nothing.
\* ------------------------------------------------------------------------
\* getLevelByDifficulty(difficulty), called
GetLevelByDifficulty ==
    /\ \E difficulty \in {"easy", "intermediate", "hard"} :
        \E random \in RandomIndices(Len(byDifficultyMode[difficulty])) :
            lastCall' = Called("getLevelByDifficulty", difficulty,
                               getLevelByDifficulty(byDifficultyMode, difficulty, random))
    /\ UNCHANGED <<storeVars, loadVars>>
    /\ UNCHANGED <<codecVars, app>>

\* getLevelByLevelNumber(levelNumber), called
GetLevelByLevelNumber ==
    /\ \E levelNumber \in 0 - MaxBeyond .. Len(levelsMode) - 1 + MaxBeyond :
            lastCall' = Called("getLevelByLevelNumber", levelNumber,
                               getLevelByLevelNumber(levelsMode, levelNumber))
    /\ UNCHANGED <<storeVars, loadVars>>
    /\ UNCHANGED <<codecVars, app>>

\* A lookup that refuses to run before the catalog is Ready.
GetCustomLevel_Guarded ==
    /\ \E levelName \in Names :
            lastCall' = Called("getCustomLevel", levelName,
                               IF promise = "resolved"
                               THEN getCustomLevel(customLevels, levelName)
                               ELSE TypeError)
    /\ UNCHANGED <<storeVars, loadVars>>
    /\ UNCHANGED <<codecVars, app>>

\* getCustomLevel(levelName), called
GetCustomLevel ==
    /\ \E levelName \in Names :
            lastCall' = Called("getCustomLevel", levelName,
                               getCustomLevel(customLevels, levelName))
    /\ UNCHANGED <<storeVars, loadVars>>
    /\ UNCHANGED <<codecVars, app>>

\* ------------------------------------------------------------------------
\* The page is opened: what earlier sessions stored is there, the two bundled
\* files answer in some way, and the catalog is constructed and loads while
\* selections may be called.
\* ------------------------------------------------------------------------
InitLoad ==
    /\ app = NoApp
    /\ CodecIdle
    /\ localStorage \in StoredAtStart
    /\ customLevels = <<>>
    /\ LoaderIdle
    /\ difficultySource \in DifficultySources
    /\ levelsSource \in LevelsSources
    /\ lastCall = NoCall

NextLoad ==
    \/ Construct
    \/ DifficultyLoaded
    \/ DifficultyFailed
    \/ LevelsLoaded
    \/ LevelsFailed
    \/ GetLevelByDifficulty
    \/ GetLevelByLevelNumber
    \/ GetCustomLevel

SpecLoad == InitLoad /\ [][NextLoad]_vars

\* index.js opened in the browser: the module's one statement, new
\* LevelProvider(() => {...}), is executed, and each fetch that is out ends,
\* with an answer or with an error. Nothing obliges a caller to select.
StartFairness ==
    /\ WF_vars(Construct)
    /\ WF_vars(DifficultyLoaded \/ DifficultyFailed)
    /\ WF_vars(LevelsLoaded \/ LevelsFailed)

SpecStart == InitLoad /\ [][NextLoad]_vars /\ StartFairness

\* ------------------------------------------------------------------------
\* The level store in use once the catalog is Ready: levels are saved and
\* removed, the custom pool is refreshed and custom levels are selected.
\* ------------------------------------------------------------------------
\* A save that also refreshes the catalog's custom pool.
SaveLevel_Refreshes ==
    /\ \E levelName \in Names, lv \in SavedLevels :
        /\ \/ ObjectHas(localStorage, CUSTOM_LEVEL_PREFIX \o levelName)
           \/ Len(localStorage) < MaxStored
        /\ localStorage' = saveLevel(localStorage, levelName, lv.board, lv.boxes, lv.worker)
        /\ lastCall' = Called("saveLevel", levelName,
                              Stored(convertToRawLevel(lv.board, lv.boxes, lv.worker)))
    /\ customLevels' = readLevels(localStorage')
    /\ UNCHANGED loadVars
    /\ UNCHANGED <<codecVars, app>>

\* saveLevel(levelName, board, boxes, worker)
SaveLevel ==
    /\ \E levelName \in Names, lv \in SavedLevels :
        /\ \/ ObjectHas(localStorage, CUSTOM_LEVEL_PREFIX \o levelName)
           \/ Len(localStorage) < MaxStored
        /\ localStorage' = saveLevel(localStorage, levelName, lv.board, lv.boxes, lv.worker)
        /\ lastCall' = Called("saveLevel", levelName,
                              Stored(convertToRawLevel(lv.board, lv.boxes, lv.worker)))
    /\ UNCHANGED <<customLevels, loadVars>>
    /\ UNCHANGED <<codecVars, app>>

\* removeLevel(levelName)
RemoveLevel ==
    /\ \E levelName \in Names :
        /\ localStorage' = removeLevel(localStorage, levelName)
        /\ lastCall' = Called("removeLevel", levelName, Returns)
    /\ UNCHANGED <<customLevels, loadVars>>
    /\ UNCHANGED <<codecVars, app>>

\* readCustomLevels()
ReadCustomLevels ==
    /\ customLevels' = readLevels(localStorage)
    /\ lastCall' = Called("readCustomLevels", <<>>, Returns)
    /\ UNCHANGED <<localStorage, loadVars>>
    /\ UNCHANGED <<codecVars, app>>

\* getCustomLevelsNames(), called
GetCustomLevelsNames ==
    /\ lastCall' = Called("getCustomLevelsNames", <<>>,
                          Listed(getCustomLevelsNames(customLevels)))
    /\ UNCHANGED <<storeVars, loadVars>>
    /\ UNCHANGED <<codecVars, app>>

\* readLevels(), called
ReadLevels ==
    /\ lastCall' = Called("readLevels", <<>>, Listed(readLevels(localStorage)))
    /\ UNCHANGED <<storeVars, loadVars>>
    /\ UNCHANGED <<codecVars, app>>

\* saveGame(gameName, currentLevel, worker, boxes, movesMade, movesUndone, score)
SaveGame ==
    /\ \E gameName \in GameNames, g \in SavedGames :
        /\ \/ ObjectHas(localStorage, SAVED_GAME_PREFIX \o gameName)
           \/ Len(localStorage) < MaxStored
        /\ localStorage' = saveGame(localStorage, gameName, g.currentLevel, g.level.worker,
                                    g.level.boxes, g.movesMade, g.movesUndone, g.score)
        /\ lastCall' = Called("saveGame", gameName,
                              Stored(GameJson(g.currentLevel, g.level.worker, g.level.boxes,
                                              g.movesMade, g.movesUndone, g.score)))
    /\ UNCHANGED <<customLevels, loadVars>>
    /\ UNCHANGED <<codecVars, app>>

\* saveCustomGame(gameName, levelName, worker, boxes, movesMade, movesUndone)
SaveCustomGame ==
    /\ \E gameName \in GameNames, g \in SavedCustomGames :
        /\ \/ ObjectHas(localStorage, CUSTOM_SAVE_PREFIX \o gameName)
           \/ Len(localStorage) < MaxStored
        /\ localStorage' = saveCustomGame(localStorage, gameName, g.levelName, g.level.worker,
                                          g.level.boxes, g.movesMade, g.movesUndone)
        /\ lastCall' = Called("saveCustomGame", gameName,
                              Stored(CustomGameJson(g.levelName, g.level.worker, g.level.boxes,
                                                    g.movesMade, g.movesUndone)))
    /\ UNCHANGED <<customLevels, loadVars>>
    /\ UNCHANGED <<codecVars, app>>

\* readGames(), called
ReadGames ==
    /\ lastCall' = Called("readGames", <<>>, Listed(readGames(localStorage)))
    /\ UNCHANGED <<storeVars, loadVars>>
    /\ UNCHANGED <<codecVars, app>>

\* readCustomGames(), called
ReadCustomGames ==
    /\ lastCall' = Called("readCustomGames", <<>>, Listed(readCustomGames(localStorage)))
    /\ UNCHANGED <<storeVars, loadVars>>
    /\ UNCHANGED <<codecVars, app>>

\* The catalog after a successful load of the two fullest documents.
LoaderReady ==
    /\ difficultySource \in {src \in DifficultySources :
            /\ src.kind = "json"
            /\ \A d \in {"easy", "intermediate", "hard"} :
                    ObjectHas(src.levels, d) /\ ObjectGet(src.levels, d) # <<>>}
    /\ levelsSource \in {src \in LevelsSources : src.kind = "json" /\ Len(src.levels) > 1}
    /\ byDifficultyMode = PushDifficulties(NoDifficultyLevels, difficultySource.levels, 1).pools
    /\ levelsMode = PushAll(<<>>, levelsSource.levels)
    /\ fetchDifficulty = "ok"
    /\ fetchLevels = "ok"
    /\ issued = [difficulty |-> 1, levels |-> 1]
    /\ promise = "resolved"
    /\ promiseError = "none"
    /\ resolveCalls = 1
    /\ reloads = NoReloads

InitStore ==
    /\ app = NoApp
    /\ CodecIdle
    /\ localStorage = <<>>
    /\ customLevels = <<>>
    /\ LoaderReady
    /\ lastCall = NoCall

NextStore ==
    \/ SaveLevel
    \/ RemoveLevel
    \/ ReadCustomLevels
    \/ GetCustomLevel
    \/ GetCustomLevelsNames

SpecStore == InitStore /\ [][NextStore]_vars

\* ------------------------------------------------------------------------
\* index.js: the handlers the function passed to new LevelProvider(...)
\* registers. Nothing in the sources runs that function (see Construct);
\* Callback is its body run once on the Ready catalog, as a constructor that
\* kept its argument would run it, and the handlers act from there. The
\* buttons are taken to be clickable when the code displays them: those of
\* the menu while the menu is displayed, bNextLevel, bSaveGame and bReadGame
\* in LEVELS mode only.
\* ------------------------------------------------------------------------
\* new Game(context, canvasImage, JSON.parse(JSON.stringify(level)), onVictory):
\* the worker and the boxes of the game are those of the level
NewGame(lv) == [worker |-> lv.worker, boxes |-> lv.boxes]

\* level = <selection>['level']; resetGame(): a selection that throws ends
\* the handler there.
Play(a, selected) ==
    IF selected.threw THEN a
    ELSE [a EXCEPT !.level = selected.level, !.game = NewGame(selected.level)]

\* setGamemode(gamemodeToSet), selected being what the selection of the new
\* mode returns
setGamemode(a, gamemodeToSet, selected) ==
    LET left == IF a.gamemode = gamemodes.LEVELS THEN [a EXCEPT !.bNextLevel = FALSE] ELSE a
        set == [left EXCEPT !.gamemode = gamemodeToSet]
    IN  IF gamemodeToSet = gamemodes.CUSTOM THEN set ELSE Play(set, selected)

\* The objects JSON.parse can give for the text of a saved game.
SaveData ==
    LET levels == {convertToLevel(levelsMode[i].data) : i \in 1 .. Len(levelsMode)}
                    \cup UNION {{convertToLevel(byDifficultyMode[d][i].data) :
                                    i \in 1 .. Len(byDifficultyMode[d])} :
                                d \in {"easy", "intermediate", "hard"}}
    IN  [currentLevel : 0 .. Len(levelsMode) + MaxBeyond,
         worker : {lv.worker : lv \in levels},
         boxes : {lv.boxes : lv \in levels},
         movesMade : {0}, movesUndone : {0}, score : {0}]

\* JSON.parse(save['data']): the object whose JSON text is the data
JSONparse(data) ==
    CHOOSE saveData \in SaveData :
        GameJson(saveData.currentLevel, saveData.worker, saveData.boxes,
                 saveData.movesMade, saveData.movesUndone, saveData.score) = data

\* The body of the function, lines 10 to 372: the declarations, the
\* listeners, and init(), which selects the first level by difficulty.
Callback ==
    /\ app.runs = 0
    /\ promise = "resolved"
    /\ \E random \in RandomIndices(Len(byDifficultyMode[app.selectedDifficulty])) :
        LET selected == getLevelByDifficulty(byDifficultyMode, app.selectedDifficulty, random)
        IN  /\ app' = [Play(app, selected) EXCEPT !.runs = @ + 1]
            /\ lastCall' = Called("getLevelByDifficulty", app.selectedDifficulty, selected)
    /\ UNCHANGED <<storeVars, loadVars>>
    /\ UNCHANGED codecVars

\* bChangeGamemode clicked, from BY_DIFFICULTY: setGamemode(gamemodes.LEVELS)
ChangeToLevels ==
    /\ app.runs = 1
    /\ app.menu = "menu"
    /\ app.gamemode = gamemodes.BY_DIFFICULTY
    /\ LET selected == getLevelByLevelNumber(levelsMode, 0)
       IN  /\ app' = setGamemode(app, gamemodes.LEVELS, selected)
           /\ lastCall' = Called("getLevelByLevelNumber", 0, selected)
    /\ UNCHANGED <<storeVars, loadVars>>
    /\ UNCHANGED codecVars

\* bChangeGamemode clicked, from LEVELS: setGamemode(gamemodes.CUSTOM)
ChangeToCustom ==
    /\ app.runs = 1
    /\ app.menu = "menu"
    /\ app.gamemode = gamemodes.LEVELS
    /\ app' = setGamemode(app, gamemodes.CUSTOM, NoLevel)
    /\ UNCHANGED <<storeVars, loadVars, lastCall>>
    /\ UNCHANGED codecVars

\* bChangeGamemode clicked, from CUSTOM: setGamemode(gamemodes.BY_DIFFICULTY)
ChangeToByDifficulty ==
    /\ app.runs = 1
    /\ app.menu = "menu"
    /\ app.gamemode = gamemodes.CUSTOM
    /\ \E random \in RandomIndices(Len(byDifficultyMode[app.selectedDifficulty])) :
        LET selected == getLevelByDifficulty(byDifficultyMode, app.selectedDifficulty, random)
        IN  /\ app' = setGamemode(app, gamemodes.BY_DIFFICULTY, selected)
            /\ lastCall' = Called("getLevelByDifficulty", app.selectedDifficulty, selected)
    /\ UNCHANGED <<storeVars, loadVars>>
    /\ UNCHANGED codecVars

\* onVictory(movesMade, movesUndone), called by the game when the level is
\* solved: in LEVELS mode bNextLevel is displayed
OnVictory ==
    /\ app.runs = 1
    /\ app.menu = "menu"
    /\ app' = [app EXCEPT !.bNextLevel = @ \/ app.gamemode = gamemodes.LEVELS]
    /\ UNCHANGED <<storeVars, loadVars, lastCall>>
    /\ UNCHANGED codecVars

\* bNextLevel clicked: level = getLevelByLevelNumber(++ currentLevel)['level']
NextLevel ==
    /\ app.runs = 1
    /\ app.menu = "menu"
    /\ app.bNextLevel
    /\ app.currentLevel < Len(levelsMode) - 1 + MaxBeyond
    /\ LET selected == getLevelByLevelNumber(levelsMode, app.currentLevel + 1)
           counted == [app EXCEPT !.currentLevel = @ + 1]
       IN  /\ app' = IF selected.threw THEN counted
                     ELSE [Play(counted, selected) EXCEPT !.bNextLevel = FALSE]
           /\ lastCall' = Called("getLevelByLevelNumber", app.currentLevel + 1, selected)
    /\ UNCHANGED <<storeVars, loadVars>>
    /\ UNCHANGED codecVars

\* bSaveGame clicked: the menu of the saves with the form of the name
OpenSaveMenu ==
    /\ app.runs = 1
    /\ app.menu = "menu"
    /\ app.gamemode = gamemodes.LEVELS
    /\ app' = [app EXCEPT !.menu = "name_save", !.savesList = readGames(localStorage)]
    /\ lastCall' = Called("readGames", <<>>, Listed(readGames(localStorage)))
    /\ UNCHANGED <<storeVars, loadVars>>
    /\ UNCHANGED codecVars

\* bConfirmSave clicked with a name typed: saveGame(iSaveName.value,
\* currentLevel, game.worker, game.boxes, game.movesMade, movesUndone,
\* scoreHolder.totalScore), no move made and no score yet
ConfirmSave ==
    /\ app.runs = 1
    /\ app.menu = "name_save"
    /\ \E gameName \in GameNames :
        /\ \/ ObjectHas(localStorage, SAVED_GAME_PREFIX \o gameName)
           \/ Len(localStorage) < MaxStored
        /\ localStorage' = saveGame(localStorage, gameName, app.currentLevel,
                                    app.game.worker, app.game.boxes, 0, 0, 0)
        /\ lastCall' = Called("saveGame", gameName,
                              Stored(GameJson(app.currentLevel, app.game.worker,
                                              app.game.boxes, 0, 0, 0)))
    /\ app' = [app EXCEPT !.menu = "menu"]
    /\ UNCHANGED <<customLevels, loadVars>>
    /\ UNCHANGED codecVars

\* bCancelSave clicked, or bConfirmSave with no name typed
CancelSave ==
    /\ app.runs = 1
    /\ app.menu \in {"name_save", "save_menu"}
    /\ app' = [app EXCEPT !.menu = "menu"]
    /\ UNCHANGED <<storeVars, loadVars, lastCall>>
    /\ UNCHANGED codecVars

\* bReadGame clicked: the menu of the saves, one button for each
OpenReadMenu ==
    /\ app.runs = 1
    /\ app.menu = "menu"
    /\ app.gamemode = gamemodes.LEVELS
    /\ app' = [app EXCEPT !.menu = "save_menu", !.savesList = readGames(localStorage)]
    /\ lastCall' = Called("readGames", <<>>, Listed(readGames(localStorage)))
    /\ UNCHANGED <<storeVars, loadVars>>
    /\ UNCHANGED codecVars

\* A saveButton of that menu clicked: the level of saveData['currentLevel']
\* is selected, and the game is made of its board and of the worker and the
\* boxes of the save; currentLevel is not assigned
LoadSave ==
    /\ app.runs = 1
    /\ app.menu = "save_menu"
    /\ \E i \in 1 .. Len(app.savesList) :
        LET saveData == JSONparse(app.savesList[i].data)
            selected == getLevelByLevelNumber(levelsMode, saveData.currentLevel)
            shown == [app EXCEPT !.menu = "menu"]
        IN  /\ app' = IF selected.threw THEN shown
                      ELSE [shown EXCEPT !.level = selected.level,
                                         !.game = [worker |-> saveData.worker,
                                                   boxes |-> saveData.boxes]]
            /\ lastCall' = Called("getLevelByLevelNumber", saveData.currentLevel, selected)
    /\ UNCHANGED <<storeVars, loadVars>>
    /\ UNCHANGED codecVars

NextLevels ==
    \/ Callback
    \/ ChangeToLevels
    \/ ChangeToCustom
    \/ ChangeToByDifficulty
    \/ OnVictory
    \/ NextLevel
    \/ OpenSaveMenu
    \/ ConfirmSave
    \/ CancelSave
    \/ OpenReadMenu
    \/ LoadSave

SpecLevels == InitStore /\ [][NextLevels]_vars

\* ------------------------------------------------------------------------
\* The catalog used on after it is Ready: another LevelProvider is
\* constructed, the exported loaders are called again, levels are selected
\* and the custom pool is refreshed.
\* ------------------------------------------------------------------------
\* new LevelProvider(), once more: readCustomLevels() runs and the fetch of
\* readLevelsByDifficulty() goes out.
ConstructAgain ==
    /\ promise = "resolved"
    /\ issued.difficulty < 1 + MaxReloads
    /\ customLevels' = readLevels(localStorage)
    /\ issued' = [issued EXCEPT !.difficulty = @ + 1]
    /\ reloads' = [reloads EXCEPT !.ctorDifficulty = @ + 1]
    /\ UNCHANGED <<localStorage, byDifficultyMode, levelsMode, difficultySource, levelsSource,
                   fetchDifficulty, fetchLevels, promise, promiseError, resolveCalls, lastCall>>
    /\ UNCHANGED <<codecVars, app>>

\* readLevelsByDifficulty(), called by itself: the fetch goes out.
ReadLevelsByDifficulty ==
    /\ issued.difficulty < 1 + MaxReloads
    /\ issued' = [issued EXCEPT !.difficulty = @ + 1]
    /\ reloads' = [reloads EXCEPT !.difficulty = @ + 1]
    /\ UNCHANGED <<storeVars, byDifficultyMode, levelsMode, difficultySource, levelsSource,
                   fetchDifficulty, fetchLevels, promise, promiseError, resolveCalls, lastCall>>
    /\ UNCHANGED <<codecVars, app>>

\* readLevelsLevelsByLevelNumber(), called by itself: the fetch goes out.
ReadLevelsLevelsByLevelNumber ==
    /\ issued.levels < 1 + MaxReloads
    /\ issued' = [issued EXCEPT !.levels = @ + 1]
    /\ reloads' = [reloads EXCEPT !.levels = @ + 1]
    /\ UNCHANGED <<storeVars, byDifficultyMode, levelsMode, difficultySource, levelsSource,
                   fetchDifficulty, fetchLevels, promise, promiseError, resolveCalls, lastCall>>
    /\ UNCHANGED <<codecVars, app>>

\* levels_difficulty.json arrives again: the callback pushes its levels onto
\* byDifficultyMode; a constructor that awaited it goes on to
\* readLevelsLevelsByLevelNumber().
DifficultyReloaded ==
    /\ difficultySource.kind = "json"
    /\ LET filled == PushDifficulties(byDifficultyMode, difficultySource.levels, 1)
       IN  /\ ~filled.threw
           /\ byDifficultyMode' = filled.pools
    /\ \/ /\ reloads.difficulty > 0
          /\ reloads' = [reloads EXCEPT !.difficulty = @ - 1]
          /\ UNCHANGED issued
       \/ /\ reloads.ctorDifficulty > 0
          /\ reloads' = [reloads EXCEPT !.ctorDifficulty = @ - 1, !.ctorLevels = @ + 1]
          /\ issued' = [issued EXCEPT !.levels = @ + 1]
    /\ UNCHANGED <<storeVars, levelsMode, difficultySource, levelsSource,
                   fetchDifficulty, fetchLevels, promise, promiseError, resolveCalls, lastCall>>
    /\ UNCHANGED <<codecVars, app>>

\* levels_levels_mode.json arrives again: the callback pushes its levels onto
\* levelsMode; a constructor that awaited it calls resolve() on its promise.
LevelsReloaded ==
    /\ levelsSource.kind = "json"
    /\ levelsMode' = PushAll(levelsMode, levelsSource.levels)
    /\ \/ /\ reloads.levels > 0
          /\ reloads' = [reloads EXCEPT !.levels = @ - 1]
          /\ UNCHANGED resolveCalls
       \/ /\ reloads.ctorLevels > 0
          /\ reloads' = [reloads EXCEPT !.ctorLevels = @ - 1]
          /\ resolveCalls' = resolveCalls + 1
    /\ UNCHANGED <<storeVars, byDifficultyMode, difficultySource, levelsSource,
                   fetchDifficulty, fetchLevels, issued, promise, promiseError, lastCall>>
    /\ UNCHANGED <<codecVars, app>>

InitReload ==
    /\ app = NoApp
    /\ CodecIdle
    /\ localStorage \in StoredAtStart
    /\ customLevels = readLevels(localStorage)
    /\ LoaderReady
    /\ lastCall = NoCall

NextReload ==
    \/ ConstructAgain
    \/ ReadLevelsByDifficulty
    \/ ReadLevelsLevelsByLevelNumber
    \/ DifficultyReloaded
    \/ LevelsReloaded
    \/ GetLevelByDifficulty
    \/ GetLevelByLevelNumber
    \/ GetCustomLevel
    \/ ReadCustomLevels

SpecReload == InitReload /\ [][NextReload]_vars

\* ------------------------------------------------------------------------
\* The three namespaces of localStorage in use together: custom levels are
\* saved, removed and listed, games of both modes are saved and listed.
\* ------------------------------------------------------------------------
NextNamespaces ==
    \/ SaveLevel
    \/ RemoveLevel
    \/ ReadLevels
    \/ SaveGame
    \/ SaveCustomGame
    \/ ReadGames
    \/ ReadCustomGames

SpecNamespaces == InitStore /\ [][NextNamespaces]_vars

\* ------------------------------------------------------------------------
\* Properties of the codec
\* ------------------------------------------------------------------------
BoxSet(bs) == {bs[i] : i \in 1 .. Len(bs)}
BoxPositions(bs) == {bs[i].position : i \in 1 .. Len(bs)}

\* A well-formed structured level with a worker: boxes at pairwise distinct
\* positions, none under the worker, each flagged by the terrain under it.
WellFormedStructured ==
    /\ worker # Undefined
    /\ worker.position \notin BoxPositions(boxes)
    /\ Distinct([i \in 1 .. Len(boxes) |-> boxes[i].position])
    /\ \A i \in 1 .. Len(boxes) :
            boxes[i].onTarget = (TerrainAt(board, boxes[i].position) = "t")

\* The encoder's job has been decoded again.
RoundTripDone == phase = "decoded" /\ WellFormedStructured

\* C1 as stated: decode(encode(board, boxes, worker)) gives back the same
\* terrain in every cell, the cell under the worker included, the same worker
\* position and the same set of boxes.
C1_RoundTripEveryCell ==
    RoundTripDone =>
        /\ ~level.threw
        /\ level.board = board
        /\ level.worker = worker
        /\ BoxSet(level.boxes) = BoxSet(boxes)

\* The terrain a round trip gives back at a position: e under the worker, t
\* under a box on a target and e under any other box, else the terrain itself.
TerrainKept(pos) ==
    IF pos = worker.position THEN "e"
    ELSE IF pos \in BoxPositions(boxes)
         THEN (IF TerrainAt(board, pos) = "t" THEN "t" ELSE "e")
         ELSE TerrainAt(board, pos)

\* C1 as amended: decode(encode(board, boxes, worker)) gives back the same
\* worker position, the same set of boxes (positions and onTarget flags, each
\* box once) and the same terrain in every cell, except that the cell under
\* the worker and a wall cell under a box come back as e; so the whole board
\* comes back when the worker stands on e and no box stands on a wall.
C1_RoundTrip ==
    RoundTripDone =>
        /\ ~level.threw
        /\ \A pos \in Positions : TerrainAt(level.board, pos) = TerrainKept(pos)
        /\ (/\ TerrainAt(board, worker.position) = "e"
            /\ \A pos \in BoxPositions(boxes) : TerrainAt(board, pos) # "w")
                => level.board = board
        /\ level.worker = worker
        /\ BoxSet(level.boxes) = BoxSet(boxes)
        /\ Len(level.boxes) = Len(boxes)

\* A round trip of two boxes, one on a target and given out of row order, with
\* the worker standing on a target.
C1_Witness ==
    /\ RoundTripDone
    /\ Len(boxes) = 2
    /\ boxes[1].onTarget /\ ~boxes[2].onTarget
    /\ boxes[1].position.y > boxes[2].position.y
    /\ TerrainAt(board, worker.position) = "t"
    /\ ~level.threw
    /\ level.boxes = <<boxes[2], boxes[1]>>

\* C2 as stated: a raw string at least a full board long is decoded without
\* error, and to the level its first width*height characters decode to.
C2_LongerAccepted ==
    phase = "decoded" /\ Len(rawLevel) >= BoardCells =>
        /\ ~level.threw
        /\ level = convertToLevel(Substr(rawLevel, 0, BoardCells))

\* C2 as amended: of the raw strings at least a full board long, exactly those
\* of length width*height are decoded without error; a longer one raises a
\* TypeError and returns no level, whatever the characters past the board are.
C2_ExactAccepted ==
    phase = "decoded" /\ Len(rawLevel) >= BoardCells =>
        /\ level.threw <=> Len(rawLevel) > BoardCells
        /\ level.threw => level = TypeError
        /\ ~level.threw =>
                /\ Len(level.board) = BOARD_DIMENSIONS.y
                /\ \A r \in 1 .. BOARD_DIMENSIONS.y : Len(level.board[r]) = BOARD_DIMENSIONS.x

\* A decoded string one floor character longer than the board: it threw.
C2_Witness ==
    /\ phase = "decoded"
    /\ Len(rawLevel) = BoardCells + 1
    /\ rawLevel[BoardCells + 1] = "e"
    /\ level.threw

\* C3 as stated: a raw string whose length is not width*height makes the
\* decoder fail.
C3_WrongLengthFails ==
    phase = "decoded" /\ Len(rawLevel) # BoardCells => level.threw

\* C3 as amended: only a raw string longer than width*height makes the decoder
\* fail (with a TypeError); a shorter one is decoded without error, to the
\* level of the string padded with e up to width*height.
C3_ShortPadded ==
    phase = "decoded" /\ Len(rawLevel) # BoardCells =>
        IF Len(rawLevel) > BoardCells
        THEN level = TypeError
        ELSE /\ ~level.threw
             /\ level = convertToLevel(rawLevel \o Repeat("e", BoardCells - Len(rawLevel)))
             /\ \A i \in Len(rawLevel) .. BoardCells - 1 :
                    level.board[(i \div BOARD_DIMENSIONS.x) + 1][(i % BOARD_DIMENSIONS.x) + 1] = "e"

\* A decoded string one character short of the board, ending in a wall: a
\* level came back, its last cell empty floor.
C3_Witness ==
    /\ phase = "decoded"
    /\ Len(rawLevel) = BoardCells - 1
    /\ rawLevel[BoardCells - 1] = "w"
    /\ ~level.threw
    /\ level.board[BOARD_DIMENSIONS.y][BOARD_DIMENSIONS.x] = "e"

\* ------------------------------------------------------------------------
\* Properties of the catalog
\* ------------------------------------------------------------------------
Elements(seq) == {seq[i] : i \in 1 .. Len(seq)}

\* The last call was getLevelByLevelNumber, made when the catalog was Ready
\* with a non-empty byNumber pool.
ByNumberInReady ==
    /\ lastCall.op = "getLevelByLevelNumber"
    /\ lastCall.promise = "resolved"
    /\ levelsMode # <<>>

\* The call's result is the given entry of a pool: its name, its data decoded.
Returned(outcome, entry) ==
    /\ ~outcome.threw
    /\ outcome.name = entry.name
    /\ outcome.level = convertToLevel(entry.data)

\* C4: in Ready with a non-empty byNumber pool, getLevelByLevelNumber(n)
\* returns the entry at index n for 0 <= n < length, and for n >= length the
\* same name and level as getLevelByLevelNumber(length - 1), the last entry.
C4_Clamp ==
    ByNumberInReady /\ lastCall.arg >= 0 =>
        IF lastCall.arg < Len(levelsMode)
        THEN Returned(lastCall.outcome, levelsMode[lastCall.arg + 1])
        ELSE /\ Returned(lastCall.outcome, levelsMode[Len(levelsMode)])
             /\ lastCall.outcome = getLevelByLevelNumber(levelsMode, Len(levelsMode) - 1)

\* A level number past the end of a pool of several levels was asked for, and
\* the last level came back.
C4_Witness ==
    /\ ByNumberInReady
    /\ Len(levelsMode) > 1
    /\ lastCall.arg = Len(levelsMode)
    /\ lastCall.outcome.name = levelsMode[Len(levelsMode)].name

\* C5: for every n outside the bounds of the byNumber pool, negative n
\* included, getLevelByLevelNumber(n) does not fail and returns the last entry.
C5_OutOfBoundsClamps ==
    ByNumberInReady /\ (lastCall.arg < 0 \/ lastCall.arg >= Len(levelsMode)) =>
        Returned(lastCall.outcome, levelsMode[Len(levelsMode)])

\* C6: getCustomLevel(name) returns the custom-pool entry named `name` when
\* there is one and fails when `name` is not among getCustomLevelsNames(); a
\* failed lookup changes neither the custom pool nor the store.
C6_CustomLookup ==
    [][(lastCall'.tick # lastCall.tick /\ lastCall'.op = "getCustomLevel") =>
        /\ IF lastCall'.arg \in Elements(getCustomLevelsNames(customLevels))
           THEN \E i \in 1 .. Len(customLevels) :
                    /\ customLevels[i].name = lastCall'.arg
                    /\ Returned(lastCall'.outcome, customLevels[i])
           ELSE lastCall'.outcome.threw
        /\ lastCall'.outcome.threw =>
                customLevels' = customLevels /\ localStorage' = localStorage]_vars

\* A lookup of a name that is not in a non-empty custom pool has failed.
C6_Witness ==
    /\ lastCall.op = "getCustomLevel"
    /\ lastCall.outcome.threw
    /\ customLevels # <<>>
    /\ lastCall.arg \notin Elements(getCustomLevelsNames(customLevels))

\* The pool holds one entry per property of the document, in order.
Populated(pool, document) ==
    /\ Len(pool) = Len(document)
    /\ \A i \in 1 .. Len(document) :
            pool[i].name = document[i].key /\ pool[i].data = document[i].value

\* The custom pool holds exactly the levels stored under the level/ prefix.
CustomPoolRead ==
    /\ \A i \in 1 .. Len(localStorage) :
            StartsWith(localStorage[i].key, CUSTOM_LEVEL_PREFIX) =>
                \E j \in 1 .. Len(customLevels) :
                    /\ CUSTOM_LEVEL_PREFIX \o customLevels[j].name = localStorage[i].key
                    /\ customLevels[j].data = localStorage[i].value
    /\ Len(customLevels) =
            Cardinality({i \in 1 .. Len(localStorage) :
                            StartsWith(localStorage[i].key, CUSTOM_LEVEL_PREFIX)})

\* C7: the constructor's promise resolves at most once, and only after both
\* loads have completed and filled byDifficultyMode and levelsMode; the custom
\* pool has been read from the store before either load completes.
C7_ReadyOnce ==
    /\ resolveCalls <= 1
    /\ promise = "resolved" =>
            /\ resolveCalls = 1
            /\ fetchDifficulty = "ok" /\ fetchLevels = "ok"
            /\ difficultySource.kind = "json" /\ levelsSource.kind = "json"
            /\ \A d \in {"easy", "intermediate", "hard"} :
                    /\ ObjectHas(difficultySource.levels, d)
                    /\ Populated(byDifficultyMode[d], ObjectGet(difficultySource.levels, d))
            /\ Populated(levelsMode, levelsSource.levels)
    /\ (fetchDifficulty \in {"ok", "failed"} \/ fetchLevels \in {"ok", "failed"}) =>
            CustomPoolRead

\* The catalog is Ready with levels in every pool.
C7_Witness ==
    /\ promise = "resolved"
    /\ Len(customLevels) = 2
    /\ Len(levelsMode) = 3
    /\ Len(byDifficultyMode["easy"]) = 2

\* C8 as stated: once constructed, the catalog has issued both fetches, so
\* that both are outstanding together.
C8_BothIssuedOnConstruction ==
    promise # "none" => fetchDifficulty # "idle" /\ fetchLevels # "idle"

\* C8 as amended: construction issues the byDifficulty fetch alone; the
\* byNumber fetch is issued when the byDifficulty load has completed, so the
\* two are never outstanding together, the byDifficulty load always completes
\* first, and Ready follows the byNumber load.
C8_Sequential ==
    /\ promise # "none" => fetchDifficulty # "idle"
    /\ ~(fetchDifficulty = "inflight" /\ fetchLevels = "inflight")
    /\ fetchLevels # "idle" => fetchDifficulty = "ok"
    /\ promise = "resolved" <=> fetchLevels = "ok"

\* The byDifficulty load is complete and only now is the byNumber fetch out.
C8_Witness ==
    /\ promise = "pending"
    /\ fetchDifficulty = "ok"
    /\ fetchLevels = "inflight"
    /\ issued = [difficulty |-> 1, levels |-> 1]

\* The error a failed load of a source rejects with.
ErrorOf(source) ==
    CASE source.kind = "unreachable" -> "NetworkError"
      [] source.kind = "invalid" -> "SyntaxError"
      [] source.kind = "json" -> "TypeError"

\* C9: if either bundled fetch fails or yields a malformed document, the
\* constructor's promise is rejected with that error, it is never resolved,
\* no fetch is issued again and the catalog is not Ready, also when one
\* built-in pool has been filled.
C9_FailureRejects ==
    (fetchDifficulty = "failed" \/ fetchLevels = "failed") =>
        /\ promise = "rejected"
        /\ promiseError = IF fetchDifficulty = "failed"
                          THEN ErrorOf(difficultySource) ELSE ErrorOf(levelsSource)
        /\ resolveCalls = 0
        /\ issued.difficulty = 1 /\ issued.levels <= 1
        /\ fetchDifficulty = "failed" => fetchLevels = "idle" /\ issued.levels = 0
        /\ levelsMode = <<>>

\* The byNumber load failed after the byDifficulty pool had been filled.
C9_Witness ==
    /\ fetchLevels = "failed"
    /\ promise = "rejected"
    /\ promiseError = "SyntaxError"
    /\ byDifficultyMode["easy"] # <<>>

\* C10 as stated: a selection call made while the catalog is Loading fails.
C10_LoadingSelectionFails ==
    lastCall.promise = "pending" => lastCall.outcome.threw

\* C10 as amended: a selection call made while the catalog is Loading is not
\* checked against readiness; it returns a level when the entry it selects is
\* already in its pool and fails, with a TypeError, only when it is not:
\* getCustomLevel returns every level of the custom pool, getLevelByDifficulty
\* returns a level of the bucket once the byDifficulty load has completed, and
\* getLevelByLevelNumber fails since the byNumber pool is still empty.
C10_LoadingUnchecked ==
    [][(lastCall'.tick # lastCall.tick /\ promise = "pending") =>
        CASE lastCall'.op = "getCustomLevel" ->
                IF \E i \in 1 .. Len(localStorage) :
                        localStorage[i].key = CUSTOM_LEVEL_PREFIX \o lastCall'.arg
                THEN /\ ~lastCall'.outcome.threw
                     /\ lastCall'.outcome.name = lastCall'.arg
                     /\ lastCall'.outcome.level =
                            convertToLevel(getItem(localStorage,
                                                   CUSTOM_LEVEL_PREFIX \o lastCall'.arg))
                ELSE lastCall'.outcome = TypeError
          [] lastCall'.op = "getLevelByDifficulty" ->
                IF /\ fetchDifficulty = "ok"
                   /\ ObjectGet(difficultySource.levels, lastCall'.arg) # <<>>
                THEN \E e \in Elements(ObjectGet(difficultySource.levels, lastCall'.arg)) :
                        /\ ~lastCall'.outcome.threw
                        /\ lastCall'.outcome.name = e.key
                        /\ lastCall'.outcome.level = convertToLevel(e.value)
                ELSE lastCall'.outcome = TypeError
          [] lastCall'.op = "getLevelByLevelNumber" ->
                lastCall'.outcome = TypeError]_vars

\* A custom level was returned while the catalog was still Loading.
C10_Witness ==
    /\ lastCall.promise = "pending"
    /\ lastCall.op = "getCustomLevel"
    /\ ~lastCall.outcome.threw
    /\ lastCall.outcome.name = <<"X">>

\* ------------------------------------------------------------------------
\* Properties of the stores
\* ------------------------------------------------------------------------
\* The step is a call of the operation op.
Stepped(op) == lastCall'.tick # lastCall.tick /\ lastCall'.op = op

\* The entries of a list that are not named name.
Others(list, name) == {e \in Elements(list) : e.name # name}

\* C11: after saveLevel(name, ...), whatever was saved and removed before,
\* readLevels() holds exactly one entry named name, its data is the raw level
\* just saved, and the entries of all other names are as they were; this for
\* every name, the empty one and one that is the prefix text included.
C11_IdempotentSave ==
    [][Stepped("saveLevel") =>
        LET name == lastCall'.arg
            before == readLevels(localStorage)
            after == readLevels(localStorage')
        IN  /\ Cardinality({i \in 1 .. Len(after) : after[i].name = name}) = 1
            /\ \A i \in 1 .. Len(after) :
                    after[i].name = name => after[i].data = lastCall'.outcome.data
            /\ Others(after, name) = Others(before, name)
            /\ Cardinality(Others(after, name)) = Len(after) - 1]_vars

\* The level named by the prefix text, stored before another level, has just
\* been saved again, with other data than the level stored after it.
C11_Witness ==
    /\ lastCall.op = "saveLevel"
    /\ lastCall.arg = CUSTOM_LEVEL_PREFIX
    /\ Len(localStorage) = 2
    /\ localStorage[1] = Pair(CUSTOM_LEVEL_PREFIX \o CUSTOM_LEVEL_PREFIX, RawB)
    /\ localStorage[2] = Pair(CUSTOM_LEVEL_PREFIX \o <<"X">>, RawA)
    /\ readLevels(localStorage) =
            <<[name |-> CUSTOM_LEVEL_PREFIX, data |-> RawB], [name |-> <<"X">>, data |-> RawA]>>

\* The three namespaces: the prefix of each and the names used in it.
Namespaces == {"level", "save", "custom_save"}

PrefixOf(ns) ==
    CASE ns = "level" -> CUSTOM_LEVEL_PREFIX
      [] ns = "save" -> SAVED_GAME_PREFIX
      [] ns = "custom_save" -> CUSTOM_SAVE_PREFIX

NamesOf(ns) == IF ns = "level" THEN Names ELSE GameNames

\* What the list operation of a namespace returns on a store.
ListOf(ns, store) ==
    CASE ns = "level" -> readLevels(store)
      [] ns = "save" -> readGames(store)
      [] ns = "custom_save" -> readCustomGames(store)

\* The namespace each operation that writes the store belongs to.
WritersOf(ns) ==
    CASE ns = "level" -> {"saveLevel", "removeLevel"}
      [] ns = "save" -> {"saveGame"}
      [] ns = "custom_save" -> {"saveCustomGame"}

\* The entries written under a namespace that the store holds: one for each
\* name whose key, the prefix followed by the name, is stored.
WrittenUnder(ns, store) ==
    {[name |-> n, data |-> getItem(store, PrefixOf(ns) \o n)] :
        n \in {m \in NamesOf(ns) : ObjectHas(store, PrefixOf(ns) \o m)}}

\* C12: whatever levels and games were saved and removed, under whatever
\* names, the list operation of each namespace returns the entries written
\* under that namespace and no entry of another one, and a save or remove of
\* one namespace leaves what the other two list operations return unchanged,
\* also when the same name is stored in several namespaces.
C12_NamespaceIsolation ==
    [][/\ \A ns \in Namespaces :
            /\ Elements(ListOf(ns, localStorage')) = WrittenUnder(ns, localStorage')
            /\ Len(ListOf(ns, localStorage')) = Cardinality(WrittenUnder(ns, localStorage'))
       /\ \A ns \in Namespaces :
            (lastCall'.tick # lastCall.tick /\ lastCall'.op \in WritersOf(ns)) =>
                \A other \in Namespaces \ {ns} :
                    ListOf(other, localStorage') = ListOf(other, localStorage)]_vars

\* A game of custom mode named X has just been saved while a game of
\* sequential mode named X is stored: each list returns its own X only.
C12_Witness ==
    /\ lastCall.op = "saveCustomGame"
    /\ lastCall.arg = <<"X">>
    /\ ObjectHas(localStorage, SAVED_GAME_PREFIX \o <<"X">>)
    /\ ObjectHas(localStorage, CUSTOM_SAVE_PREFIX \o <<"X">>)
    /\ Len(readGames(localStorage)) = 1
    /\ Len(readCustomGames(localStorage)) = 1
    /\ readGames(localStorage)[1].data # readCustomGames(localStorage)[1].data
    /\ readLevels(localStorage) = <<>>

\* C13: removeLevel(name) deletes the custom level stored under name and
\* nothing else; when no level is stored under name it raises no error and
\* leaves the whole store, all three namespaces, unchanged.
C13_RemoveFrame ==
    [][Stepped("removeLevel") =>
        LET key == CUSTOM_LEVEL_PREFIX \o lastCall'.arg
        IN  /\ ~lastCall'.outcome.threw
            /\ ~ObjectHas(localStorage', key)
            /\ \A i \in 1 .. Len(localStorage) :
                    localStorage[i].key # key => localStorage[i] \in Elements(localStorage')
            /\ Len(localStorage') =
                    Len(localStorage) - (IF ObjectHas(localStorage, key) THEN 1 ELSE 0)
            /\ ~ObjectHas(localStorage, key) => localStorage' = localStorage
            /\ readGames(localStorage') = readGames(localStorage)
            /\ readCustomGames(localStorage') = readCustomGames(localStorage)
            /\ Others(readLevels(localStorage'), lastCall'.arg)
                    = Others(readLevels(localStorage), lastCall'.arg)]_vars

\* removeLevel of the empty name has just returned; the level named by the
\* prefix text, whose key starts with the key removed, and a game named X
\* are stored.
C13_Witness ==
    /\ lastCall.op = "removeLevel"
    /\ lastCall.arg = <<>>
    /\ ~lastCall.outcome.threw
    /\ Len(localStorage) = 2
    /\ ObjectHas(localStorage, CUSTOM_LEVEL_PREFIX \o CUSTOM_LEVEL_PREFIX)
    /\ ObjectHas(localStorage, SAVED_GAME_PREFIX \o <<"X">>)

\* The names stored under the level/ prefix: each such key less the prefix.
StoredLevelNames(store) ==
    {SubstrFrom(store[i].key, Len(CUSTOM_LEVEL_PREFIX)) :
        i \in {j \in 1 .. Len(store) : StartsWith(store[j].key, CUSTOM_LEVEL_PREFIX)}}

\* C14: the custom pool that getCustomLevelsNames() and getCustomLevel() see
\* is the content of the level store as of the last readCustomLevels(): a
\* readCustomLevels() makes the pool the list of the levels stored then, its
\* names exactly the names stored under the level/ prefix; no other call
\* changes the pool, so a saveLevel or removeLevel made since is not visible;
\* and both operations answer from the pool.
C14_PoolAsOfLastRead ==
    [][/\ Stepped("readCustomLevels") =>
            /\ customLevels' = readLevels(localStorage)
            /\ localStorage' = localStorage
            /\ Elements(getCustomLevelsNames(customLevels')) = StoredLevelNames(localStorage')
            /\ Len(customLevels') = Cardinality(StoredLevelNames(localStorage'))
            /\ \A i \in 1 .. Len(customLevels') :
                    customLevels'[i].data =
                        getItem(localStorage', CUSTOM_LEVEL_PREFIX \o customLevels'[i].name)
       /\ ~Stepped("readCustomLevels") => customLevels' = customLevels
       /\ Stepped("getCustomLevelsNames") =>
            /\ Len(lastCall'.outcome.list) = Len(customLevels)
            /\ \A i \in 1 .. Len(customLevels) :
                    lastCall'.outcome.list[i] = customLevels[i].name
       /\ Stepped("getCustomLevel") =>
            lastCall'.outcome = getCustomLevel(customLevels, lastCall'.arg)]_vars

\* getCustomLevelsNames() has just answered X, a level removed from the store
\* since the last readCustomLevels(), and not the level saved since.
C14_Witness ==
    /\ lastCall.op = "getCustomLevelsNames"
    /\ lastCall.outcome.list = << <<"X">> >>
    /\ Len(localStorage) = 1
    /\ localStorage[1].key = CUSTOM_LEVEL_PREFIX \o CUSTOM_LEVEL_PREFIX

\* C15: once the catalog is Ready, no operation adds, removes or duplicates
\* an entry of byDifficultyMode or levelsMode: not a selection, not
\* readCustomLevels, not the construction of another LevelProvider, not a
\* further call of readLevelsByDifficulty or readLevelsLevelsByLevelNumber.
C15_PoolsNeverChange ==
    [][promise = "resolved" =>
        /\ byDifficultyMode' = byDifficultyMode
        /\ levelsMode' = levelsMode]_vars

\* ------------------------------------------------------------------------
\* More properties of the codec
\* ------------------------------------------------------------------------
\* C16: for every board of width x height terrain cells and every set of
\* in-bounds box positions and worker position, convertToRawLevel returns a
\* string of exactly width*height characters.
C16_EncodedLength ==
    phase \in {"raw", "decoded"} =>
        Len(rawLevel) = BOARD_DIMENSIONS.x * BOARD_DIMENSIONS.y

\* Two boxes and a worker in the last cell have been encoded.
C16_Witness ==
    /\ phase = "raw"
    /\ Len(boxes) = 2
    /\ worker = NewWorker([x |-> BOARD_DIMENSIONS.x - 1, y |-> BOARD_DIMENSIONS.y - 1])
    /\ Len(rawLevel) = BoardCells
    /\ rawLevel[BoardCells] = "p"

\* The index of a position in a raw level, counted from 1.
IndexOfCell(pos) == pos.y * BOARD_DIMENSIONS.x + pos.x + 1

FullBoardDecoded == phase \in {"decoded", "reencoded"} /\ Len(rawLevel) = BoardCells

\* The cell of the character at index i of a raw level, counted from 0.
CellOf(i) == [x |-> i % BOARD_DIMENSIONS.x, y |-> i \div BOARD_DIMENSIONS.x]

\* The indices, counted from 0 and in increasing order, at which a raw level
\* holds one of the given symbols.
IndicesOf(raw, symbols) ==
    SelectSeq([i \in 1 .. Len(raw) |-> i - 1], LAMBDA i : raw[i + 1] \in symbols)

\* C18: for every raw string of width*height characters over the six
\* symbols, convertToLevel places the character at index i in the cell of
\* column i mod width and row i div width, and returns a board of e, w and t
\* only, one box for each b or h, in string order and at that character's
\* cell, and each box's onTarget true exactly when the returned board holds t
\* at the box's position.
C18_DecodePlacement ==
    FullBoardDecoded =>
        /\ ~level.threw
        /\ \A i \in 0 .. BoardCells - 1 :
                TerrainAt(level.board, CellOf(i)) =
                    CASE rawLevel[i + 1] \in {"p", "b"} -> "e"
                      [] rawLevel[i + 1] = "h" -> "t"
                      [] OTHER -> rawLevel[i + 1]
        /\ Len(level.board) = BOARD_DIMENSIONS.y
        /\ \A r \in 1 .. Len(level.board) :
                /\ Len(level.board[r]) = BOARD_DIMENSIONS.x
                /\ \A c \in 1 .. Len(level.board[r]) : level.board[r][c] \in Terrain
        /\ LET at == IndicesOf(rawLevel, {"b", "h"})
           IN  /\ Len(level.boxes) = Len(at)
               /\ \A k \in 1 .. Len(at) :
                    /\ level.boxes[k].position = CellOf(at[k])
                    /\ level.boxes[k].onTarget = (rawLevel[at[k] + 1] = "h")
        /\ \A k \in 1 .. Len(level.boxes) :
                level.boxes[k].onTarget = (TerrainAt(level.board, level.boxes[k].position) = "t")

\* "hbphbt" has been decoded: four boxes, in string order.
C18_Witness ==
    /\ phase = "decoded"
    /\ rawLevel = <<"h", "b", "p", "h", "b", "t">>
    /\ ~level.threw
    /\ Len(level.boxes) = 4
    /\ level.boxes[3] = NewBox([x |-> 0, y |-> 1], TRUE)
    /\ level.board = <<<<"t", "e", "e">>, <<"t", "e", "t">>>>

\* C19: convertToLevel returns the worker at (0,0), raising no error, when
\* the raw string holds no p; when it holds one p the worker is at that
\* character's cell and the board holds e there; when it holds several the
\* worker is at the last one in string order.  For every raw string no longer
\* than the board.
C19_WorkerPlacement ==
    phase \in {"decoded", "reencoded"} /\ Len(rawLevel) <= BoardCells =>
        /\ ~level.threw
        /\ LET at == IndicesOf(rawLevel, {"p"})
           IN  IF at = <<>>
               THEN level.worker = NewWorker([x |-> 0, y |-> 0])
               ELSE /\ level.worker = NewWorker(CellOf(at[Len(at)]))
                    /\ \A k \in 1 .. Len(at) : TerrainAt(level.board, CellOf(at[k])) = "e"

\* "twpepw", with two p, has been decoded: the worker is at the later one.
C19_Witness ==
    /\ phase = "decoded"
    /\ rawLevel = <<"t", "w", "p", "e", "p", "w">>
    /\ ~level.threw
    /\ level.worker = NewWorker([x |-> 1, y |-> 1])
    /\ level.board = <<<<"t", "w", "e">>, <<"e", "e", "w">>>>

\* A well-formed raw level has been decoded and the level encoded again:
\* width*height characters of the six symbols, at most one of them p.
WellFormedReencoded ==
    /\ phase = "reencoded"
    /\ Len(rawLevel) = BoardCells
    /\ Len(IndicesOf(rawLevel, {"p"})) <= 1

\* C20 as stated: for every well-formed raw level s, convertToRawLevel of the
\* board, boxes and worker that convertToLevel(s) returns is s.
C20_ReverseRoundTrip ==
    WellFormedReencoded => reencoded = rawLevel

\* C20 as amended: for every well-formed raw level s that holds exactly one
\* p, convertToRawLevel of the board, boxes and worker that convertToLevel(s)
\* returns is s; for one that holds no p it is s with its first character
\* replaced by p, the worker that convertToLevel defaults to (0,0) being
\* written over whatever stood there.
C20_ReverseRoundTripWithWorker ==
    WellFormedReencoded =>
        IF IndicesOf(rawLevel, {"p"}) = <<>>
        THEN /\ reencoded = [rawLevel EXCEPT ![1] = "p"]
             /\ reencoded # rawLevel
        ELSE reencoded = rawLevel

\* "tbhwee", which holds no p, came back as "pbhwee".
C20_Witness ==
    /\ phase = "reencoded"
    /\ rawLevel = <<"t", "b", "h", "w", "e", "e">>
    /\ reencoded = <<"p", "b", "h", "w", "e", "e">>

\* C21 as stated: on the board of width 3 and height 2, decoding "wtpbhe"
\* yields the worker at (2,0), the boxes (0,1) not on a target and (1,1) on a
\* target, in that order, and the board [[w,t,e],[e,e,e]].
C21_ConcreteBoardAsStated ==
    phase \in {"decoded", "reencoded"} /\ rawLevel = RawA =>
        /\ BOARD_DIMENSIONS = [x |-> 3, y |-> 2]
        /\ ~level.threw
        /\ level.worker = NewWorker([x |-> 2, y |-> 0])
        /\ level.boxes = <<NewBox([x |-> 0, y |-> 1], FALSE), NewBox([x |-> 1, y |-> 1], TRUE)>>
        /\ level.board = <<<<"w", "t", "e">>, <<"e", "e", "e">>>>

\* C21 as amended: on the board of width 3 and height 2, decoding "wtpbhe"
\* yields the worker at (2,0), the boxes (0,1) not on a target and (1,1) on a
\* target, in that order, and the board [[w,t,e],[e,t,e]]: the h of index 4
\* leaves the target t under its box, in cell (1,1).
C21_ConcreteScenario ==
    phase \in {"decoded", "reencoded"} /\ rawLevel = RawA =>
        /\ BOARD_DIMENSIONS = [x |-> 3, y |-> 2]
        /\ ~level.threw
        /\ level.worker = NewWorker([x |-> 2, y |-> 0])
        /\ level.boxes = <<NewBox([x |-> 0, y |-> 1], FALSE), NewBox([x |-> 1, y |-> 1], TRUE)>>
        /\ level.board = <<<<"w", "t", "e">>, <<"e", "t", "e">>>>

\* "wtpbhe" has been decoded, and a level came back.
C21_Witness ==
    /\ phase = "decoded"
    /\ rawLevel = RawA
    /\ ~level.threw
    /\ TerrainAt(level.board, [x |-> 1, y |-> 1]) = "t"

\* The entries of the bucket of the last getLevelByDifficulty call.
C22_Bucket == byDifficultyMode[lastCall.arg]

\* C22: in Ready, getLevelByDifficulty(d) with a non-empty bucket d returns an
\* entry of bucket d, converted: never an entry of another bucket, never a
\* failure on an undefined entry; every entry of the bucket is the result for
\* one of the indices the call can draw; with an empty bucket the call fails.
C22_DifficultySelection ==
    lastCall.op = "getLevelByDifficulty" /\ lastCall.promise = "resolved" =>
        /\ promise = "resolved"
        /\ IF Len(C22_Bucket) = 0
           THEN lastCall.outcome = TypeError
           ELSE /\ ~lastCall.outcome.threw
                /\ \E i \in 1 .. Len(C22_Bucket) :
                       /\ lastCall.outcome.name = C22_Bucket[i].name
                       /\ lastCall.outcome.level = convertToLevel(C22_Bucket[i].data)
                /\ \A other \in {"easy", "intermediate", "hard"} \ {lastCall.arg} :
                       \A j \in 1 .. Len(byDifficultyMode[other]) :
                           byDifficultyMode[other][j].name # lastCall.outcome.name
        /\ RandomIndices(Len(C22_Bucket)) \subseteq 0 .. Max(Len(C22_Bucket) - 1, 0)
        /\ \A i \in 1 .. Len(C22_Bucket) :
               \E random \in RandomIndices(Len(C22_Bucket)) :
                   getLevelByDifficulty(byDifficultyMode, lastCall.arg, random)
                       = Selected(C22_Bucket[i])

\* In Ready, the second entry of a bucket of two has been returned.
C22_Witness ==
    /\ lastCall.op = "getLevelByDifficulty"
    /\ lastCall.promise = "resolved"
    /\ Len(C22_Bucket) = 2
    /\ ~lastCall.outcome.threw
    /\ lastCall.outcome.name = C22_Bucket[2].name

\* In Ready, a call on an empty bucket has failed.
C22_EmptyBucketFailed ==
    /\ lastCall.op = "getLevelByDifficulty"
    /\ lastCall.promise = "resolved"
    /\ Len(C22_Bucket) = 0
    /\ lastCall.outcome = TypeError

\* The texts saveGame and saveCustomGame can write: the JSON of each record.
C23_GameTexts ==
    {GameJson(g.currentLevel, g.level.worker, g.level.boxes,
              g.movesMade, g.movesUndone, g.score) : g \in SavedGames}

C23_CustomGameTexts ==
    {CustomGameJson(g.levelName, g.level.worker, g.level.boxes,
                    g.movesMade, g.movesUndone) : g \in SavedCustomGames}

\* The list has exactly one entry named name, and its data is the text data.
C23_OneEntry(list, name, data) ==
    /\ Cardinality({i \in 1 .. Len(list) : list[i].name = name}) = 1
    /\ \A i \in 1 .. Len(list) : list[i].name = name => list[i].data = data

\* C23: after saveGame(name, ...) readGames() holds exactly one entry named
\* name, whose data is the JSON text of the record just saved, unparsed, and
\* readCustomGames() returns what it returned before; the same of
\* saveCustomGame with the two lists exchanged; readGames and readCustomGames
\* leave the store as it is and return each record's text as it is stored.
C23_ProgressStore ==
    [][/\ Stepped("saveGame") =>
            /\ lastCall'.outcome.data \in C23_GameTexts
            /\ C23_OneEntry(readGames(localStorage'), lastCall'.arg, lastCall'.outcome.data)
            /\ readCustomGames(localStorage') = readCustomGames(localStorage)
       /\ Stepped("saveCustomGame") =>
            /\ lastCall'.outcome.data \in C23_CustomGameTexts
            /\ C23_OneEntry(readCustomGames(localStorage'), lastCall'.arg, lastCall'.outcome.data)
            /\ readGames(localStorage') = readGames(localStorage)
       /\ Stepped("readGames") =>
            /\ localStorage' = localStorage
            /\ lastCall'.outcome.list = readGames(localStorage)
            /\ \A i \in 1 .. Len(lastCall'.outcome.list) :
                    lastCall'.outcome.list[i].data =
                        getItem(localStorage, SAVED_GAME_PREFIX \o lastCall'.outcome.list[i].name)
       /\ Stepped("readCustomGames") =>
            /\ localStorage' = localStorage
            /\ lastCall'.outcome.list = readCustomGames(localStorage)
            /\ \A i \in 1 .. Len(lastCall'.outcome.list) :
                    lastCall'.outcome.list[i].data =
                        getItem(localStorage, CUSTOM_SAVE_PREFIX \o lastCall'.outcome.list[i].name)]_vars

\* The sequential-mode game X, stored before the custom-mode game X, has just
\* been saved again: readGames() holds the one X with the new text, and
\* readCustomGames() its own X.
C23_Witness ==
    /\ lastCall.op = "saveGame"
    /\ lastCall.arg = <<"X">>
    /\ Len(localStorage) = 2
    /\ localStorage[1].key = SAVED_GAME_PREFIX \o <<"X">>
    /\ localStorage[2].key = CUSTOM_SAVE_PREFIX \o <<"X">>
    /\ localStorage[1].value = lastCall.outcome.data
    /\ localStorage[2].value \in C23_CustomGameTexts
    /\ readGames(localStorage) = <<[name |-> <<"X">>, data |-> lastCall.outcome.data]>>
    /\ Len(readCustomGames(localStorage)) = 1

\* ------------------------------------------------------------------------
\* Properties of index.js
\* ------------------------------------------------------------------------
\* C24: the function index.js passes to new LevelProvider(...), which calls
\* init() and the first getLevelByDifficulty, runs only when the promise of
\* the constructor is resolved, never more than once, and once the promise is
\* resolved it does eventually run.
C24_StartupRuns ==
    /\ [](app.runs > 0 => promise = "resolved")
    /\ [](app.runs <= 1)
    /\ [](promise = "resolved" => <>(app.runs = 1))

\* Both loads are in and the promise is resolved: the catalog is Ready, and
\* the function has not been run.
C24_ReadyNotStarted ==
    /\ promise = "resolved"
    /\ fetchDifficulty = "ok"
    /\ fetchLevels = "ok"
    /\ app.runs = 0

C25_LoadedSaveBehind ==
    /\ app.runs = 1
    /\ app.gamemode = gamemodes.LEVELS
    /\ app.menu = "menu"
    /\ lastCall.op = "getLevelByLevelNumber"
    /\ lastCall.arg = 0
    /\ app.currentLevel = 1
    /\ localStorage # <<>>
    /\ app.level = getLevelByLevelNumber(levelsMode, 0).level

====
